---------------------------- MODULE Spec2Model ----------------------------
(***************************************************************************)
(* Position lifecycle of the two MIDCPNIFTY option backtests:              *)
(*   buying  : backtest_buying_momentum.py  (MidcapOptionsStrategy)        *)
(*   selling : backtest_crossselling.py     (OptionSellingStrategy)        *)
(*                                                                         *)
(* Units.  A date is a day ordinal (an integer), a time of day is a number *)
(* of seconds since midnight, a timestamp is date * 86400 + time.  A price *)
(* is an integer number of sixths of a rupee, so that the stop price       *)
(* entry + steps * 500 / 120 (a multiple of 25/6 rupee above the entry) is *)
(* exact.  A profit/loss is an integer number of rupees.  Values recorded  *)
(* in the ledger and the summary are rounded to two decimals and are held  *)
(* in paise (hundredths of a rupee).                                       *)
(***************************************************************************)
EXTENDS Integers, Sequences, FiniteSets, TLC

VARIABLES
    variant,               \* which of the two programs runs: "buying" / "selling"
    bar,                   \* the data feed's current line, self.data[0]
    nbars,                 \* len(self.data): bars delivered so far
    current_date,          \* buying only
    trades_today,          \* buying only
    total_trades_count,
    position_active,
    pos_type,
    entry_price,
    entry_time,
    active_scrip,
    sl_mode,               \* buying only
    current_sl_price,      \* buying only
    max_pnl_reached,       \* buying only
    active_option_df,      \* the cached contract series, NoneDf when empty
    summary_log,
    current_trade_ledger,
    trade_files,           \* files written under DETAILS_FOLDER, in order
    io_log,                \* contract files opened while handling the current bar
    asof_in,               \* the as-of resolver on its own: series, query, ceiling
    asof_out,
    ema_in,                \* the EMA computation on its own: prices and span
    ema_out

strat_vars == <<current_date, trades_today, total_trades_count, position_active,
                pos_type, entry_price, entry_time, active_scrip, sl_mode,
                current_sl_price, max_pnl_reached, active_option_df, summary_log,
                current_trade_ledger, trade_files, io_log>>
feed_vars == <<variant, bar, nbars>>
asof_vars == <<asof_in, asof_out>>
ema_vars == <<ema_in, ema_out>>
vars == <<feed_vars, strat_vars, asof_vars, ema_vars>>

---------------------------------------------------------------------------
(* Bounds of the model *)

MaxBars == 4            \* bars delivered in one replay
MaxDay == 2             \* calendar days the bar stream spans (days 1..MaxDay)

---------------------------------------------------------------------------
(* Program constants *)

LOT_SIZE == 120
MAX_TRADES_DAY == 2
TSL_TRIGGER == 3000
TSL_STEP == 500
TSL_INCREMENT == 500
TARGET_LTP == 30
ROLLOVER_DAYS == 4
MAX_STALE_SECONDS == 900

PriceUnit == 6          \* price units per rupee
DaySeconds == 86400

HM(h, m) == h * 3600 + m * 60                 \* datetime.time(h, m)
TS(d, h, m) == d * DaySeconds + HM(h, m)      \* a naive timestamp
DateOf(ts) == ts \div DaySeconds
Stamp(date, time) == date * DaySeconds + time
Rs(x) == x * PriceUnit                        \* a price of x rupees

NoneDate == 0
NoneTime == [date |-> 0, time |-> 0]
NoneType == "None"
NonePrice == -1         \* get_option_price returning None
NoneDf == <<>>
NoneRow == [ts |-> -1]

(* round(x, 2) of a price held in sixths of a rupee, in paise.  x * 100 / 6 *)
(* has fractional part 0, 1/3 or 2/3, so no tie arises.                     *)
Round2(p) == (p * 50 + 1) \div 3
(* round(x, 2) of a whole number of rupees, in paise. *)
Round2Rupees(x) == x * 100


---------------------------------------------------------------------------
(* The contract series source: the CSV files of the two option folders.    *)
(* A row is one candle.  Timestamps within a file are distinct, and the    *)
(* prices of a file have at most two decimals (here: multiples of half a   *)
(* rupee, 3 price units).                                                  *)

Candle(ts, h, l, c) == [ts |-> ts, high |-> Rs(h), low |-> Rs(l), close |-> Rs(c)]
Tick(ts, p) == [ts |-> ts, high |-> p, low |-> p, close |-> p]

BuyFiles ==
    [x \in {"C1", "C2", "C3", "C4", "P1", "P0"} |->
       CASE x = "C1" -> [kind |-> "csv", rows |->
                 << Tick(TS(1, 9, 20), Rs(100)), Tick(TS(1, 11, 0), Rs(125)),
                    Tick(TS(1, 15, 15), Rs(130)), Tick(TS(2, 9, 15), Rs(127)),
                    Tick(TS(2, 9, 20), Rs(133) + 3), Tick(TS(2, 11, 0), Rs(104)) >>]
         [] x = "C2" -> [kind |-> "csv", rows |->
                 << Tick(TS(1, 15, 15), Rs(70)), Tick(TS(1, 11, 0), Rs(90)) >>]
         [] x = "C3" -> [kind |-> "csv", rows |-> << Tick(TS(1, 9, 10), Rs(100)) >>]
         [] x = "C4" -> [kind |-> "csv", rows |->
                 << Tick(TS(1, 9, 20), Rs(100)), Tick(TS(1, 9, 30), Rs(125)),
                    Tick(TS(1, 9, 40), Rs(130)), Tick(TS(1, 9, 50), Rs(134)),
                    Tick(TS(1, 10, 0), Rs(100)) >>]
         [] x = "P1" -> [kind |-> "csv", rows |->
                 << Tick(TS(1, 9, 20), Rs(50)), Tick(TS(1, 11, 0), Rs(80)),
                    Tick(TS(1, 15, 15), Rs(45)), Tick(TS(2, 9, 20), 0) >>]
         [] x = "P0" -> [kind |-> "missing", rows |-> << >>] ]

SellFiles ==
    [x \in {"SC1", "SC0", "SP1", "SP2", "SP3", "SP0"} |->
       CASE x = "SP1" -> [kind |-> "csv", rows |->
                 << Candle(TS(1, 13, 45), 60, 60, 60), Candle(TS(1, 13, 55), 60, 40, 40),
                    Candle(TS(1, 14, 10), 40, 25, 25) >>]
         [] x = "SP2" -> [kind |-> "csv", rows |->
                 << Candle(TS(2, 14, 0), 45, 45, 45), Candle(TS(1, 13, 45), 60, 60, 60),
                    Candle(TS(1, 13, 55), 60, 40, 40) >>]
         [] x = "SP3" -> [kind |-> "csv", rows |->
                 << Candle(TS(1, 13, 50), 60, 60, 60), Candle(TS(1, 13, 58), 60, 40, 40),
                    Candle(TS(1, 15, 25), 40, 30, 35) >>]
         [] x = "SC1" -> [kind |-> "csv", rows |->
                 << Candle(TS(1, 13, 45), 50, 50, 50), Candle(TS(1, 13, 55), 50, 30, 30),
                    Candle(TS(1, 14, 10), 100, 30, 100) >>]
         [] x = "SC0" -> [kind |-> "unparsable", rows |-> << >>]
         [] x = "SP0" -> [kind |-> "missing", rows |-> << >>] ]

OptionsFolder(v) == IF v = "buying" THEN BuyFiles ELSE SellFiles

(* df.sort_index(): rows in increasing timestamp order (insertion sort). *)
RECURSIVE InsertByTs(_, _)
InsertByTs(row, sorted) ==
    IF sorted = << >> THEN << row >>
    ELSE IF row.ts < Head(sorted).ts THEN << row >> \o sorted
    ELSE << Head(sorted) >> \o InsertByTs(row, Tail(sorted))

RECURSIVE SortIndex(_)
SortIndex(rows) ==
    IF rows = << >> THEN << >>
    ELSE InsertByTs(rows[Len(rows)], SortIndex(SubSeq(rows, 1, Len(rows) - 1)))

IsMonotonicIncreasing(rows) ==
    \A i \in 1..(Len(rows) - 1) : rows[i].ts <= rows[i + 1].ts

(* pandas Index.asof on a sorted index: the position before the first      *)
(* label greater than ts (searchsorted side = right, minus one); 0 = NaT.  *)
RECURSIVE SearchSortedRight(_, _, _)
SearchSortedRight(rows, ts, i) ==
    IF i > Len(rows) THEN Len(rows)
    ELSE IF rows[i].ts > ts THEN i - 1
    ELSE SearchSortedRight(rows, ts, i + 1)

AsOf(rows, ts) == SearchSortedRight(rows, ts, 1)

(* Series.ewm(span, adjust = False).mean(): y[1] = x[1],                   *)
(* y[i] = ((span - 1) * y[i-1] + 2 * x[i]) / (span + 1).  The value at     *)
(* position i is the exact fraction n / d with d = (span + 1)^(i - 1).     *)
RECURSIVE Pow(_, _)
Pow(b, e) == IF e = 0 THEN 1 ELSE b * Pow(b, e - 1)

(* The recurrence with the weight 1 / (span + 1) on the new price. *)
RECURSIVE EwmNumUnitWeight(_, _, _)
EwmNumUnitWeight(xs, span, i) ==
    IF i = 1 THEN xs[1]
    ELSE (span - 1) * EwmNumUnitWeight(xs, span, i - 1) + xs[i] * Pow(span + 1, i - 2)

RECURSIVE EwmNum(_, _, _)
EwmNum(xs, span, i) ==
    IF i = 1 THEN xs[1]
    ELSE (span - 1) * EwmNum(xs, span, i - 1) + 2 * xs[i] * Pow(span + 1, i - 2)

Ewm(xs, span) ==
    [i \in 1..Len(xs) |-> [n |-> EwmNum(xs, span, i), d |-> Pow(span + 1, i - 1)]]

FracLess(a, b) == a.n * b.d < b.n * a.d

(* bt.indicators.EMA(data, period) of backtrader: no value before position *)
(* period; at position period the arithmetic mean of the first period      *)
(* values (the seed); from then on                                         *)
(* y[i] = y[i-1] * (1 - alpha) + x[i] * alpha with alpha = 2 / (period+1). *)
(* The value at position i >= period is the exact fraction n / d with      *)
(* d = period * (period + 1)^(i - period).                                 *)
EMA5_PERIOD == 5
EMA20_PERIOD == 20

NaN == [n |-> 0, d |-> 0]

RECURSIVE SumTo(_, _)
SumTo(xs, k) == IF k = 0 THEN 0 ELSE xs[k] + SumTo(xs, k - 1)

RECURSIVE BtEmaNum(_, _, _)
BtEmaNum(xs, period, i) ==
    IF i = period THEN SumTo(xs, period)
    ELSE (period - 1) * BtEmaNum(xs, period, i - 1)
             + 2 * xs[i] * period * Pow(period + 1, i - period - 1)

BtEma(xs, period) ==
    [i \in 1..Len(xs) |->
        IF i < period THEN NaN
        ELSE [n |-> BtEmaNum(xs, period, i), d |-> period * Pow(period + 1, i - period)]]

---------------------------------------------------------------------------
(* The strategy object.  The handlers below are sequential code: each is   *)
(* an operator from the fields before the call to the fields after it.     *)

Self == [current_date |-> current_date, trades_today |-> trades_today,
         total_trades_count |-> total_trades_count,
         position_active |-> position_active, pos_type |-> pos_type,
         entry_price |-> entry_price, entry_time |-> entry_time,
         active_scrip |-> active_scrip, sl_mode |-> sl_mode,
         current_sl_price |-> current_sl_price,
         max_pnl_reached |-> max_pnl_reached,
         active_option_df |-> active_option_df, summary_log |-> summary_log,
         current_trade_ledger |-> current_trade_ledger,
         trade_files |-> trade_files, io_log |-> io_log]

InitSelf == [current_date |-> NoneDate, trades_today |-> 0,
             total_trades_count |-> 0,
             position_active |-> FALSE, pos_type |-> NoneType,
             entry_price |-> 0, entry_time |-> NoneTime,
             active_scrip |-> "", sl_mode |-> "NONE",
             current_sl_price |-> 0, max_pnl_reached |-> 0,
             active_option_df |-> NoneDf, summary_log |-> << >>,
             current_trade_ledger |-> << >>,
             trade_files |-> << >>, io_log |-> << >>]

DateTime(b) == [date |-> b.date, time |-> b.time]

(* The outcome of opening the file of a contract on this bar: the source   *)
(* may signal "not found" for a file on any one bar (found = FALSE).       *)
FileKind(folder, scrip, found) ==
    IF scrip \notin DOMAIN folder \/ ~found THEN "missing" ELSE folder[scrip].kind

ReadCsv(folder, scrip) ==
    LET raw == folder[scrip].rows
    IN  IF IsMonotonicIncreasing(raw) THEN raw ELSE SortIndex(raw)

Frame(scrip, rows) == << [src |-> scrip, rows |-> rows] >>
RowsOf(df) == df[1].rows

---------------------------------------------------------------------------
(* backtest_buying_momentum.py *)

(* The profit of a long position with the two prices exchanged. *)
LongPnlReversed(price, entry, qty) == ((entry - price) * qty) \div PriceUnit

LongPnl(price, entry, qty) == ((price - entry) * qty) \div PriceUnit

(* The cache test without the comparison of the contract identifier. *)
BuyCacheMissOnlyEmpty(s, scrip_code) == s.active_option_df = NoneDf

BuyCacheMiss(s, scrip_code) ==
    s.active_option_df = NoneDf \/ s.active_scrip # scrip_code

(* Lines 117-123: the close of the as-of row, NonePrice if there is none. *)
BuyLookup(rows, ts) ==
    LET idx == AsOf(rows, ts)
    IN  IF idx > 0 THEN rows[idx].close ELSE NonePrice

(* get_option_price: the fields after the call and the price returned. *)
get_option_price(s, scrip_code, ts, found) ==
    LET kind == FileKind(BuyFiles, scrip_code, found)
        miss == BuyCacheMiss(s, scrip_code)
        s1 == IF miss
              THEN [s EXCEPT !.io_log = Append(@, [scrip |-> scrip_code, kind |-> kind])]
              ELSE s
        s2 == IF miss /\ kind = "csv"
              THEN [s1 EXCEPT !.active_option_df = Frame(scrip_code, ReadCsv(BuyFiles, scrip_code)),
                              !.active_scrip = scrip_code]
              ELSE s1
    IN  IF miss /\ kind # "csv" THEN [s |-> s1, price |-> NonePrice]
        ELSE [s |-> s2, price |-> BuyLookup(RowsOf(s2.active_option_df), ts)]

BuyStep(s, dt, event, price, pnl_val, sl_price, info) ==
    [Date |-> dt.date, Time |-> dt.time, Event |-> event, Ticker |-> s.active_scrip,
     Price |-> Round2(price), PnL_INR |-> Round2Rupees(pnl_val),
     SL_Price |-> IF sl_price > 0 THEN Round2(sl_price) ELSE 0,
     SL_Mode |-> s.sl_mode, Info |-> info]

buy_log_trade_step(s, dt, event, price, pnl_val, sl_price, info) ==
    [s EXCEPT !.current_trade_ledger =
                  Append(@, BuyStep(s, dt, event, price, pnl_val, sl_price, info))]

BuySummaryRow(s, reason, dt, price, pnl) ==
    [TradeID |-> s.total_trades_count, ScripName |-> s.active_scrip,
     BuyDateTime |-> s.entry_time, SellDateTime |-> dt,
     BuyPrice |-> Round2(s.entry_price), SellPrice |-> Round2(price),
     PnL |-> Round2Rupees(pnl), ExitReason |-> reason]

TradeFile(s, rows) ==
    [TradeID |-> s.total_trades_count, Scrip |-> s.active_scrip,
     Date |-> s.entry_time.date, rows |-> rows]

(* close_trade without the reset of the side. *)
buy_close_trade_keeping_side(s, reason, dt, price) ==
    LET pnl == LongPnl(price, s.entry_price, LOT_SIZE)
        s1 == buy_log_trade_step(s, dt, "EXIT", price, pnl, s.current_sl_price, reason)
        s2 == [s1 EXCEPT !.summary_log = Append(@, BuySummaryRow(s1, reason, dt, price, pnl))]
        s3 == [s2 EXCEPT !.trade_files = Append(@, TradeFile(s2, s2.current_trade_ledger))]
    IN  [s3 EXCEPT !.position_active = FALSE, !.active_scrip = ""]

buy_close_trade(s, reason, dt, price) ==
    LET pnl == LongPnl(price, s.entry_price, LOT_SIZE)
        s1 == buy_log_trade_step(s, dt, "EXIT", price, pnl, s.current_sl_price, reason)
        s2 == [s1 EXCEPT !.summary_log = Append(@, BuySummaryRow(s1, reason, dt, price, pnl))]
        s3 == [s2 EXCEPT !.trade_files = Append(@, TradeFile(s2, s2.current_trade_ledger))]
    IN  [s3 EXCEPT !.position_active = FALSE, !.pos_type = NoneType, !.active_scrip = ""]

entry_setup(s, type_, b, found) ==
    LET scrip == IF type_ = "CE" THEN b.ce ELSE b.pe
        r == get_option_price(s, scrip, Stamp(b.date, b.time), found)
        price == r.price
    IN  IF price # NonePrice /\ price # 0
        THEN LET s1 == [r.s EXCEPT !.total_trades_count = @ + 1,
                                   !.position_active = TRUE,
                                   !.pos_type = type_,
                                   !.entry_price = price,
                                   !.active_scrip = scrip,
                                   !.entry_time = DateTime(b),
                                   !.trades_today = @ + 1,
                                   !.sl_mode = "NONE",
                                   !.current_sl_price = 0,
                                   !.max_pnl_reached = 0,
                                   !.current_trade_ledger = << >>]
             IN  buy_log_trade_step(s1, DateTime(b), "ENTRY", price, 0, 0, type_)
        ELSE r.s

(* The underlying's EMA lines enter only through the position of EMA5      *)
(* against the EMA20 band: "above" the high line, "below" the low line,    *)
(* "inside", or "nan" on the bar before the first call of next.            *)
Ema5AboveHigh(z) == z = "above"
Ema5BelowLow(z) == z = "below"
Ema5LeHigh(z) == z \in {"inside", "below"}
Ema5GeLow(z) == z \in {"inside", "above"}

(* The day rollover without dropping the cached series. *)
NewDayResetKeepingCache(s, date) ==
    IF s.current_date # date
    THEN [s EXCEPT !.current_date = date, !.trades_today = 0]
    ELSE s

NewDayReset(s, date) ==
    IF s.current_date # date
    THEN [s EXCEPT !.current_date = date, !.trades_today = 0, !.active_option_df = NoneDf]
    ELSE s

IsExpiryToday(b) == b.date = b.expiry
(* The forced exit taken strictly after 15:15. *)
ForceExpiryAfter(b) == IsExpiryToday(b) /\ b.time > HM(15, 15)
ForceExpiry(b) == IsExpiryToday(b) /\ b.time >= HM(15, 15)

(* Move to cost without the test of the stop mode. *)
TslMoveToCostAnyMode(s, dt, price, pnl_val) ==
    IF pnl_val >= TSL_TRIGGER
    THEN LET s1 == [s EXCEPT !.sl_mode = "COST", !.current_sl_price = s.entry_price,
                             !.max_pnl_reached = pnl_val]
         IN  buy_log_trade_step(s1, dt, "TSL_UPDATE", price, pnl_val,
                                s1.current_sl_price, "Moved to Cost")
    ELSE s

(* Move to cost with the stop placed at the current price. *)
TslMoveToCostAtPrice(s, dt, price, pnl_val) ==
    IF s.sl_mode = "NONE" /\ pnl_val >= TSL_TRIGGER
    THEN LET s1 == [s EXCEPT !.sl_mode = "COST", !.current_sl_price = price,
                             !.max_pnl_reached = pnl_val]
         IN  buy_log_trade_step(s1, dt, "TSL_UPDATE", price, pnl_val,
                                s1.current_sl_price, "Moved to Cost")
    ELSE s

(* Lines 180-184: move to cost. *)
TslMoveToCost(s, dt, price, pnl_val) ==
    IF s.sl_mode = "NONE" /\ pnl_val >= TSL_TRIGGER
    THEN LET s1 == [s EXCEPT !.sl_mode = "COST", !.current_sl_price = s.entry_price,
                             !.max_pnl_reached = pnl_val]
         IN  buy_log_trade_step(s1, dt, "TSL_UPDATE", price, pnl_val,
                                s1.current_sl_price, "Moved to Cost")
    ELSE s

(* The stepped stop without the division by the quantity. *)
NewSlPerLot(entry, steps) == entry + steps * TSL_INCREMENT * PriceUnit

NewSl(entry, steps) == entry + (steps * TSL_INCREMENT * PriceUnit) \div LOT_SIZE

(* Lines 186-198: high-water mark and stepped ratchet. *)
TslStepUp(s, dt, price, pnl_val) ==
    IF s.sl_mode \in {"COST", "TRAILING"}
    THEN LET s1 == IF pnl_val > s.max_pnl_reached
                   THEN [s EXCEPT !.max_pnl_reached = pnl_val] ELSE s
             excess == s1.max_pnl_reached - TSL_TRIGGER
             steps == excess \div TSL_STEP
             new_sl == NewSl(s1.entry_price, steps)
         IN  IF excess >= TSL_STEP /\ new_sl > s1.current_sl_price
             THEN LET s2 == [s1 EXCEPT !.current_sl_price = new_sl, !.sl_mode = "TRAILING"]
                  IN  buy_log_trade_step(s2, dt, "TSL_UPDATE", price, pnl_val,
                                         s2.current_sl_price, "Stepped Up")
             ELSE s1
    ELSE s

TslHit(s, price) == s.sl_mode # "NONE" /\ price <= s.current_sl_price

EmaReversal(s, z) ==
    \/ s.pos_type = "CE" /\ Ema5BelowLow(z)
    \/ s.pos_type = "PE" /\ Ema5AboveHigh(z)

(* The held bar managed at the entry price when no price is resolved. *)
BuyManageFallbackPrice(s, b, found) ==
    LET dt == DateTime(b)
        r == get_option_price(s, s.active_scrip, Stamp(b.date, b.time), found)
        price == IF r.price = NonePrice THEN r.s.entry_price ELSE r.price
        pnl_val == LongPnl(price, r.s.entry_price, LOT_SIZE)
        s1 == buy_log_trade_step(r.s, dt, "HOLD", price, pnl_val,
                                 r.s.current_sl_price, "Monitoring")
        s2 == TslMoveToCost(s1, dt, price, pnl_val)
        s3 == TslStepUp(s2, dt, price, pnl_val)
    IN  IF TslHit(s3, price)
        THEN buy_close_trade(s3, "TSL_HIT", dt, s3.current_sl_price)
        ELSE IF EmaReversal(s3, b.zone)
             THEN buy_close_trade(s3, "EMA_REVERSAL", dt, price)
        ELSE s3

(* The held bar with the stop exit taken at the market price. *)
BuyManageExitAtMarket(s, b, found) ==
    LET dt == DateTime(b)
        r == get_option_price(s, s.active_scrip, Stamp(b.date, b.time), found)
        price == r.price
        pnl_val == LongPnl(price, r.s.entry_price, LOT_SIZE)
        s1 == buy_log_trade_step(r.s, dt, "HOLD", price, pnl_val,
                                 r.s.current_sl_price, "Monitoring")
        s2 == TslMoveToCost(s1, dt, price, pnl_val)
        s3 == TslStepUp(s2, dt, price, pnl_val)
    IN  IF price = NonePrice THEN r.s
        ELSE IF TslHit(s3, price)
             THEN buy_close_trade(s3, "TSL_HIT", dt, price)
        ELSE IF EmaReversal(s3, b.zone)
             THEN buy_close_trade(s3, "EMA_REVERSAL", dt, price)
        ELSE s3

(* The held bar with the EMA reversal tested before the stop. *)
BuyManageReversalFirst(s, b, found) ==
    LET dt == DateTime(b)
        r == get_option_price(s, s.active_scrip, Stamp(b.date, b.time), found)
        price == r.price
        pnl_val == LongPnl(price, r.s.entry_price, LOT_SIZE)
        s1 == buy_log_trade_step(r.s, dt, "HOLD", price, pnl_val,
                                 r.s.current_sl_price, "Monitoring")
        s2 == TslMoveToCost(s1, dt, price, pnl_val)
        s3 == TslStepUp(s2, dt, price, pnl_val)
    IN  IF price = NonePrice THEN r.s
        ELSE IF EmaReversal(s3, b.zone)
             THEN buy_close_trade(s3, "EMA_REVERSAL", dt, price)
        ELSE IF TslHit(s3, price)
             THEN buy_close_trade(s3, "TSL_HIT", dt, s3.current_sl_price)
        ELSE s3

(* Lines 172-210: a held bar that is not a forced-expiry bar. *)
BuyManage(s, b, found) ==
    LET dt == DateTime(b)
        r == get_option_price(s, s.active_scrip, Stamp(b.date, b.time), found)
        price == r.price
        pnl_val == LongPnl(price, r.s.entry_price, LOT_SIZE)
        s1 == buy_log_trade_step(r.s, dt, "HOLD", price, pnl_val,
                                 r.s.current_sl_price, "Monitoring")
        s2 == TslMoveToCost(s1, dt, price, pnl_val)
        s3 == TslStepUp(s2, dt, price, pnl_val)
    IN  IF price = NonePrice THEN r.s
        ELSE IF TslHit(s3, price)
             THEN buy_close_trade(s3, "TSL_HIT", dt, s3.current_sl_price)
        ELSE IF EmaReversal(s3, b.zone)
             THEN buy_close_trade(s3, "EMA_REVERSAL", dt, price)
        ELSE s3

(* Lines 165-170. *)
BuyForceExit(s, b, found) ==
    LET r == get_option_price(s, s.active_scrip, Stamp(b.date, b.time), found)
        price == IF r.price = NonePrice THEN r.s.entry_price ELSE r.price
    IN  buy_close_trade(r.s, "EXPIRY_FORCE", DateTime(b), price)

(* The entry window without its last minute. *)
BuyEntryWindowOpenEnd(time) == HM(9, 20) <= time /\ time < HM(11, 0)
BuyEntryWindow(time) == HM(9, 20) <= time /\ time <= HM(11, 0)
(* The call signal as a level: EMA5 above the band, whatever it was on    *)
(* the previous bar. *)
SignalCeLevel(prev, z) == Ema5AboveHigh(z)
SignalCe(prev, z) == Ema5LeHigh(prev) /\ Ema5AboveHigh(z)
SignalPe(prev, z) == Ema5GeLow(prev) /\ Ema5BelowLow(z)

(* The entry logic without the test of the daily cap. *)
BuyEntryUncapped(s, prev, b, found) ==
    IF ~BuyEntryWindow(b.time) THEN s
    ELSE IF SignalCe(prev, b.zone) THEN entry_setup(s, "CE", b, found)
    ELSE IF SignalPe(prev, b.zone) THEN entry_setup(s, "PE", b, found)
    ELSE s

(* Lines 215-223. *)
BuyEntry(s, prev, b, found) ==
    IF ~BuyEntryWindow(b.time) THEN s
    ELSE IF s.trades_today >= MAX_TRADES_DAY THEN s
    ELSE IF SignalCe(prev, b.zone) THEN entry_setup(s, "CE", b, found)
    ELSE IF SignalPe(prev, b.zone) THEN entry_setup(s, "PE", b, found)
    ELSE s

(* next with the entry logic run on every bar, a position held or not. *)
buy_next_always_entering(s, prev, b, found) ==
    LET s1 == NewDayReset(s, b.date)
        s2 == IF s1.position_active
              THEN IF ForceExpiry(b) THEN BuyForceExit(s1, b, found)
                   ELSE BuyManage(s1, b, found)
              ELSE s1
    IN  BuyEntry(s2, prev, b, found)

(* next with the bar of an entry also managed as a held bar. *)
buy_next_managing_entry_bar(s, prev, b, found) ==
    LET s1 == NewDayReset(s, b.date)
        s2 == BuyEntry(s1, prev, b, found)
    IN  IF s1.position_active
        THEN IF ForceExpiry(b) THEN BuyForceExit(s1, b, found)
             ELSE BuyManage(s1, b, found)
        ELSE IF s2.position_active THEN BuyManage(s2, b, found) ELSE s2

(* MidcapOptionsStrategy.next on bar b; prev is the band position of the   *)
(* previous bar. *)
buy_next(s, prev, b, found) ==
    LET s1 == NewDayReset(s, b.date)
    IN  IF s1.position_active
        THEN IF ForceExpiry(b) THEN BuyForceExit(s1, b, found)
             ELSE BuyManage(s1, b, found)
        ELSE BuyEntry(s1, prev, b, found)

---------------------------------------------------------------------------
(* backtest_crossselling.py *)

EMA_FAST == 19
EMA_SLOW == 50

ShortPnl(price, entry, qty) == ((entry - price) * qty) \div PriceUnit

Column(rows, name) == [i \in 1..Len(rows) |-> rows[i][name]]

(* Lines 126-129: the three indicator columns, computed over the whole     *)
(* series at load time. *)
WithIndicators(rows) ==
    LET e19 == Ewm(Column(rows, "close"), EMA_FAST)
        e50h == Ewm(Column(rows, "high"), EMA_SLOW)
        e50l == Ewm(Column(rows, "low"), EMA_SLOW)
    IN  [i \in 1..Len(rows) |->
            [ts |-> rows[i].ts, high |-> rows[i].high, low |-> rows[i].low,
             close |-> rows[i].close, EMA19_Close |-> e19[i],
             EMA50_High |-> e50h[i], EMA50_Low |-> e50l[i]]]

SellCacheHit(s, scrip_code) ==
    s.position_active /\ scrip_code = s.active_scrip /\ s.active_option_df # NoneDf

SellCacheStore(s, scrip_code) == s.position_active /\ scrip_code = s.active_scrip

(* The staleness test with the bound itself rejected. *)
StaleAtBound(ts, idx_ts) == ts - idx_ts >= MAX_STALE_SECONDS

Stale(ts, idx_ts) == ts - idx_ts > MAX_STALE_SECONDS

(* Lines 137-150: the row of df for the query time, NoneRow if unavailable. *)
SellLookup(rows, ts) ==
    LET idx == AsOf(rows, ts)
    IN  IF idx = 0 THEN NoneRow
        ELSE IF Stale(ts, rows[idx].ts) THEN NoneRow
        ELSE rows[idx]

(* get_option_indicators: the fields after the call and the row returned. *)
get_option_indicators(s, scrip_code, ts, found) ==
    IF SellCacheHit(s, scrip_code)
    THEN [s |-> s, row |-> SellLookup(RowsOf(s.active_option_df), ts)]
    ELSE LET kind == FileKind(SellFiles, scrip_code, found)
             s1 == [s EXCEPT !.io_log = Append(@, [scrip |-> scrip_code, kind |-> kind])]
             rows == WithIndicators(ReadCsv(SellFiles, scrip_code))
             s2 == IF SellCacheStore(s1, scrip_code)
                   THEN [s1 EXCEPT !.active_option_df = Frame(scrip_code, rows)]
                   ELSE s1
         IN  IF kind # "csv" THEN [s |-> s1, row |-> NoneRow]
             ELSE [s |-> s2, row |-> SellLookup(rows, ts)]

SellStep(s, dt, event, price, pnl_val, info) ==
    [Date |-> dt.date, Time |-> dt.time, Event |-> event, Ticker |-> s.active_scrip,
     Price |-> Round2(price), PnL_INR |-> Round2Rupees(pnl_val), Info |-> info]

sell_log_trade_step(s, dt, event, price, pnl_val, info) ==
    [s EXCEPT !.current_trade_ledger = Append(@, SellStep(s, dt, event, price, pnl_val, info))]

SellSummaryRow(s, reason, dt, price, pnl) ==
    [TradeID |-> s.total_trades_count, ScripName |-> s.active_scrip,
     Type |-> s.pos_type, Side |-> "SHORT",
     SellDateTime |-> s.entry_time, BuyDateTime |-> dt,
     SellPrice |-> Round2(s.entry_price), BuyPrice |-> Round2(price),
     PnL |-> Round2Rupees(pnl), ExitReason |-> reason]

(* open_trade without the increment of the trade sequence number. *)
open_trade_same_id(s, type_, scrip, price, dt) ==
    LET s1 == [s EXCEPT !.position_active = TRUE,
                        !.pos_type = type_,
                        !.entry_price = price,
                        !.active_scrip = scrip,
                        !.entry_time = dt,
                        !.active_option_df = NoneDf,
                        !.current_trade_ledger = << >>]
    IN  sell_log_trade_step(s1, dt, "SELL_ENTRY", price, 0, type_)

open_trade(s, type_, scrip, price, dt) ==
    LET s1 == [s EXCEPT !.total_trades_count = @ + 1,
                        !.position_active = TRUE,
                        !.pos_type = type_,
                        !.entry_price = price,
                        !.active_scrip = scrip,
                        !.entry_time = dt,
                        !.active_option_df = NoneDf,
                        !.current_trade_ledger = << >>]
    IN  sell_log_trade_step(s1, dt, "SELL_ENTRY", price, 0, type_)

sell_close_trade(s, reason, dt, price) ==
    LET pnl == ShortPnl(price, s.entry_price, LOT_SIZE)
        s1 == sell_log_trade_step(s, dt, "BUY_EXIT", price, pnl, reason)
        s2 == [s1 EXCEPT !.summary_log = Append(@, SellSummaryRow(s1, reason, dt, price, pnl))]
        s3 == [s2 EXCEPT !.trade_files = Append(@, TradeFile(s2, s2.current_trade_ledger))]
    IN  [s3 EXCEPT !.position_active = FALSE, !.pos_type = NoneType, !.active_scrip = "",
                   !.active_option_df = NoneDf]

DaysToExpiry(b) == b.expiry - b.date
(* The rollover period without its first day. *)
IsRolloverPeriodStrict(b) == DaysToExpiry(b) < ROLLOVER_DAYS
IsRolloverPeriod(b) == DaysToExpiry(b) <= ROLLOVER_DAYS

SellReversal(row) == FracLess(row.EMA50_High, row.EMA19_Close)
SellTarget(price) == price < Rs(TARGET_LTP)
SellSignal(row) == FracLess(row.EMA19_Close, row.EMA50_Low)

(* The management of a held bar with the HOLD step written only when no   *)
(* exit is taken. *)
SellManageHoldIfKept(s, b, found) ==
    LET dt == DateTime(b)
        r == get_option_indicators(s, s.active_scrip, Stamp(b.date, b.time), found)
        row == r.row
        curr_price == row.close
        pnl_val == ShortPnl(curr_price, r.s.entry_price, LOT_SIZE)
        s1 == sell_log_trade_step(r.s, dt, "HOLD", curr_price, pnl_val, "Monitoring")
    IN  IF row = NoneRow THEN r.s
        ELSE IF IsRolloverPeriod(b) THEN sell_close_trade(r.s, "ROLLOVER_EXIT", dt, curr_price)
        ELSE IF SellReversal(row) THEN sell_close_trade(r.s, "EMA_REVERSAL_SL", dt, curr_price)
        ELSE IF SellTarget(curr_price) THEN sell_close_trade(r.s, "TARGET_LTP_30", dt, curr_price)
        ELSE s1

(* The management of a held bar with the target tested first. *)
SellManageTargetFirst(s, b, found) ==
    LET dt == DateTime(b)
        r == get_option_indicators(s, s.active_scrip, Stamp(b.date, b.time), found)
        row == r.row
        curr_price == row.close
        pnl_val == ShortPnl(curr_price, r.s.entry_price, LOT_SIZE)
        s1 == sell_log_trade_step(r.s, dt, "HOLD", curr_price, pnl_val, "Monitoring")
    IN  IF row = NoneRow THEN r.s
        ELSE IF SellTarget(curr_price) THEN sell_close_trade(s1, "TARGET_LTP_30", dt, curr_price)
        ELSE IF IsRolloverPeriod(b) THEN sell_close_trade(s1, "ROLLOVER_EXIT", dt, curr_price)
        ELSE IF SellReversal(row) THEN sell_close_trade(s1, "EMA_REVERSAL_SL", dt, curr_price)
        ELSE s1

(* The management of a held bar with the rollover exit tested last. *)
SellManageRolloverLast(s, b, found) ==
    LET dt == DateTime(b)
        r == get_option_indicators(s, s.active_scrip, Stamp(b.date, b.time), found)
        row == r.row
        curr_price == row.close
        pnl_val == ShortPnl(curr_price, r.s.entry_price, LOT_SIZE)
        s1 == sell_log_trade_step(r.s, dt, "HOLD", curr_price, pnl_val, "Monitoring")
    IN  IF row = NoneRow THEN r.s
        ELSE IF SellReversal(row) THEN sell_close_trade(s1, "EMA_REVERSAL_SL", dt, curr_price)
        ELSE IF SellTarget(curr_price) THEN sell_close_trade(s1, "TARGET_LTP_30", dt, curr_price)
        ELSE IF IsRolloverPeriod(b) THEN sell_close_trade(s1, "ROLLOVER_EXIT", dt, curr_price)
        ELSE s1

(* Lines 182-207. *)
SellManage(s, b, found) ==
    LET dt == DateTime(b)
        r == get_option_indicators(s, s.active_scrip, Stamp(b.date, b.time), found)
        row == r.row
        curr_price == row.close
        pnl_val == ShortPnl(curr_price, r.s.entry_price, LOT_SIZE)
        s1 == sell_log_trade_step(r.s, dt, "HOLD", curr_price, pnl_val, "Monitoring")
    IN  IF row = NoneRow THEN r.s
        ELSE IF IsRolloverPeriod(b) THEN sell_close_trade(s1, "ROLLOVER_EXIT", dt, curr_price)
        ELSE IF SellReversal(row) THEN sell_close_trade(s1, "EMA_REVERSAL_SL", dt, curr_price)
        ELSE IF SellTarget(curr_price) THEN sell_close_trade(s1, "TARGET_LTP_30", dt, curr_price)
        ELSE s1

SellEntryWindow(time) == time >= HM(14, 0) /\ time <= HM(15, 30)

(* Lines 221-243: the put leg is probed first, then the call leg. *)
SellProbe(s, b, found) ==
    LET dt == DateTime(b)
        ts == Stamp(b.date, b.time)
        rp == get_option_indicators(s, b.pe, ts, found)
        rc == get_option_indicators(rp.s, b.ce, ts, found)
    IN  IF rp.row # NoneRow /\ SellSignal(rp.row)
        THEN open_trade(rp.s, "PE", b.pe, rp.row.close, dt)
        ELSE IF rc.row # NoneRow /\ SellSignal(rc.row)
        THEN open_trade(rc.s, "CE", b.ce, rc.row.close, dt)
        ELSE rc.s

(* The entry logic with the legs probed before the rollover veto. *)
SellEntryProbingFirst(s, b, found) ==
    LET probed == SellProbe(s, b, found)
    IN  IF ~SellEntryWindow(b.time) THEN s
        ELSE IF IsRolloverPeriod(b) THEN [s EXCEPT !.io_log = probed.io_log]
        ELSE probed

(* Lines 210-243. *)
SellEntry(s, b, found) ==
    IF IsRolloverPeriod(b) THEN s
    ELSE IF ~SellEntryWindow(b.time) THEN s
    ELSE SellProbe(s, b, found)

(* OptionSellingStrategy.next on bar b. *)
sell_next(s, b, found) ==
    IF s.position_active THEN SellManage(s, b, found) ELSE SellEntry(s, b, found)

---------------------------------------------------------------------------
(* The replay: cerebro delivers the bars of the spot file in timestamp     *)
(* order (the runner sorts them), one call of next per bar.  The spot file *)
(* holds one row per timestamp.                                            *)

Days == 1..MaxDay
Zones(v) == IF v = "buying" THEN {"above", "inside", "below"} ELSE {"nan"}
BarTimes(v) ==
    IF v = "buying"
    THEN {HM(9, 15), HM(9, 20), HM(11, 0), HM(15, 15)}
    ELSE {HM(13, 55), HM(14, 0), HM(14, 10), HM(14, 25), HM(14, 30)}
Legs(v) ==
    IF v = "buying"
    THEN {[ce |-> "C1", pe |-> "P1"], [ce |-> "C2", pe |-> "P0"]}
    ELSE {[ce |-> "SC1", pe |-> "SP1"], [ce |-> "SC1", pe |-> "SP0"],
          [ce |-> "SC0", pe |-> "SP2"]}
DaysOut(v) == IF v = "buying" THEN {0, 1} ELSE {ROLLOVER_DAYS, ROLLOVER_DAYS + 1}

NoBar == [date |-> 0, time |-> 0, expiry |-> 0, zone |-> "nan", ce |-> "", pe |-> ""]

Bar(date, time, dte, zone, legs) ==
    [date |-> date, time |-> time, expiry |-> date + dte, zone |-> zone,
     ce |-> legs.ce, pe |-> legs.pe]

Bars(v) == {Bar(d, t, x, z, l) : d \in Days, t \in BarTimes(v), x \in DaysOut(v),
                                 z \in Zones(v), l \in Legs(v)}

InOrder(b) == Stamp(b.date, b.time) > Stamp(bar.date, bar.time)

Commit(s) ==
    /\ current_date' = s.current_date
    /\ trades_today' = s.trades_today
    /\ total_trades_count' = s.total_trades_count
    /\ position_active' = s.position_active
    /\ pos_type' = s.pos_type
    /\ entry_price' = s.entry_price
    /\ entry_time' = s.entry_time
    /\ active_scrip' = s.active_scrip
    /\ sl_mode' = s.sl_mode
    /\ current_sl_price' = s.current_sl_price
    /\ max_pnl_reached' = s.max_pnl_reached
    /\ active_option_df' = s.active_option_df
    /\ summary_log' = s.summary_log
    /\ current_trade_ledger' = s.current_trade_ledger
    /\ trade_files' = s.trade_files
    /\ io_log' = s.io_log

Deliver(b) ==
    /\ nbars < MaxBars
    /\ InOrder(b)
    /\ bar' = b
    /\ nbars' = nbars + 1
    /\ UNCHANGED <<variant, asof_vars, ema_vars>>

Fresh == [Self EXCEPT !.io_log = << >>]

MidcapNext(b, found) ==
    /\ variant = "buying"
    /\ Deliver(b)
    /\ \E s \in {buy_next(Fresh, bar.zone, b, found)} : Commit(s)

SellingNext(b, found) ==
    /\ variant = "selling"
    /\ Deliver(b)
    /\ \E s \in {sell_next(Fresh, b, found)} : Commit(s)

(* __init__: the state after construction. *)
Construct ==
    /\ current_date = InitSelf.current_date
    /\ trades_today = InitSelf.trades_today
    /\ total_trades_count = InitSelf.total_trades_count
    /\ position_active = InitSelf.position_active
    /\ pos_type = InitSelf.pos_type
    /\ entry_price = InitSelf.entry_price
    /\ entry_time = InitSelf.entry_time
    /\ active_scrip = InitSelf.active_scrip
    /\ sl_mode = InitSelf.sl_mode
    /\ current_sl_price = InitSelf.current_sl_price
    /\ max_pnl_reached = InitSelf.max_pnl_reached
    /\ active_option_df = InitSelf.active_option_df
    /\ summary_log = InitSelf.summary_log
    /\ current_trade_ledger = InitSelf.current_trade_ledger
    /\ trade_files = InitSelf.trade_files
    /\ io_log = InitSelf.io_log

NoQuery == [rows |-> << >>, ts |-> 0, ceiling |-> -1]
NoPrices == [xs |-> << >>, span |-> 0]

Init ==
    /\ variant \in {"buying", "selling"}
    /\ bar = NoBar
    /\ nbars = 0
    /\ Construct
    /\ asof_in = NoQuery
    /\ asof_out = << >>
    /\ ema_in = NoPrices
    /\ ema_out = << >>

Next ==
    \/ \E b \in Bars("buying"), found \in BOOLEAN : MidcapNext(b, found)
    \/ \E b \in Bars("selling"), found \in BOOLEAN : SellingNext(b, found)

Spec == Init /\ [][Next]_vars

---------------------------------------------------------------------------
(* The as-of resolver on its own: a sorted series with distinct            *)
(* timestamps, a query time, and the lookup of each program applied to it. *)

MaxSeries == 3          \* samples in a series of the resolver check

QueryTimes == {0, 1, 2, 900, 901, 902, 1800, 1802}
SampleTimes == {1, 2, 901, 902}
PriceAt(ts) == ts + 10

RECURSIVE Ascending(_)
Ascending(S) ==
    IF S = {} THEN << >>
    ELSE LET m == CHOOSE x \in S : \A y \in S : x <= y
         IN  << Tick(m, PriceAt(m)) >> \o Ascending(S \ {m})

SeriesSet == {Ascending(S) : S \in {T \in SUBSET SampleTimes : Cardinality(T) <= MaxSeries}}

InitAsOf ==
    /\ variant \in {"buying", "selling"}
    /\ bar = NoBar
    /\ nbars = 0
    /\ Construct
    /\ asof_in \in [rows : SeriesSet, ts : QueryTimes]
    /\ asof_out = << >>
    /\ ema_in = NoPrices
    /\ ema_out = << >>

ResolveBuy ==
    /\ variant = "buying"
    /\ asof_out = << >>
    /\ asof_out' = << BuyLookup(asof_in.rows, asof_in.ts) >>
    /\ UNCHANGED <<feed_vars, strat_vars, asof_in, ema_vars>>

ResolveSell ==
    /\ variant = "selling"
    /\ asof_out = << >>
    /\ asof_out' = << SellLookup(asof_in.rows, asof_in.ts) >>
    /\ UNCHANGED <<feed_vars, strat_vars, asof_in, ema_vars>>

NextAsOf == ResolveBuy \/ ResolveSell

SpecAsOf == InitAsOf /\ [][NextAsOf]_vars

---------------------------------------------------------------------------
(* The buying replay over a morning in which the call rises past the       *)
(* trailing-stop trigger and two steps beyond it, then falls back to its   *)
(* first price: the replay may skip bars, so the fall meets the stop at    *)
(* cost, after one step or after two.                                      *)

MaxStopBars == 5        \* bars delivered in one replay of the rise and fall

StopTimes == {HM(9, 15), HM(9, 20), HM(9, 30), HM(9, 40), HM(9, 50), HM(10, 0)}
StopBars == {Bar(1, t, 1, z, [ce |-> "C4", pe |-> "P1"]) :
                t \in StopTimes, z \in Zones("buying")}

InitStop ==
    /\ variant = "buying"
    /\ bar = NoBar
    /\ nbars = 0
    /\ Construct
    /\ asof_in = NoQuery
    /\ asof_out = << >>
    /\ ema_in = NoPrices
    /\ ema_out = << >>

MidcapStopNext(b) ==
    /\ variant = "buying"
    /\ nbars < MaxStopBars
    /\ InOrder(b)
    /\ bar' = b
    /\ nbars' = nbars + 1
    /\ UNCHANGED <<variant, asof_vars, ema_vars>>
    /\ \E s \in {buy_next(Fresh, bar.zone, b, TRUE)} : Commit(s)

NextStop == \E b \in StopBars : MidcapStopNext(b)

SpecStop == InitStop /\ [][NextStop]_vars

---------------------------------------------------------------------------
(* The buying replay over the bars of a busy morning: one pair of          *)
(* contracts, every file found, bars at short intervals inside the entry   *)
(* window of one day and the first window bar of the next day.             *)

MaxDayBars == 7         \* bars delivered in one replay of the busy morning

DayTimes == {HM(9, 15), HM(9, 20), HM(9, 30), HM(9, 40), HM(9, 50), HM(10, 0)}
DayBars == {Bar(1, t, 1, z, [ce |-> "C1", pe |-> "P1"]) :
                t \in DayTimes, z \in Zones("buying")}
           \cup {Bar(2, HM(9, 20), 0, z, [ce |-> "C1", pe |-> "P1"]) :
                    z \in Zones("buying")}

InitDay ==
    /\ variant = "buying"
    /\ bar = NoBar
    /\ nbars = 0
    /\ Construct
    /\ asof_in = NoQuery
    /\ asof_out = << >>
    /\ ema_in = NoPrices
    /\ ema_out = << >>

MidcapDayNext(b) ==
    /\ variant = "buying"
    /\ nbars < MaxDayBars
    /\ InOrder(b)
    /\ bar' = b
    /\ nbars' = nbars + 1
    /\ UNCHANGED <<variant, asof_vars, ema_vars>>
    /\ \E s \in {buy_next(Fresh, bar.zone, b, TRUE)} : Commit(s)

NextDay == \E b \in DayBars : MidcapDayNext(b)

SpecDay == InitDay /\ [][NextDay]_vars

---------------------------------------------------------------------------
(* The replay over bars at the edges of the entry window: the minute       *)
(* before it, its first and last minute, the minute after it, with a       *)
(* contract whose price is available on each of them.                      *)

MaxWindowBars == 4      \* bars delivered in one replay at the window's edges

WindowTimes(v) ==
    IF v = "buying"
    THEN {HM(9, 19), HM(9, 20), HM(11, 0), HM(11, 1)}
    ELSE {HM(13, 59), HM(14, 0), HM(15, 30), HM(15, 31)}
WindowBars(v) ==
    IF v = "buying"
    THEN {Bar(1, t, 1, z, [ce |-> "C3", pe |-> "P1"]) :
              t \in WindowTimes(v), z \in Zones(v)}
    ELSE {Bar(1, t, x, z, [ce |-> "SC0", pe |-> "SP3"]) :
              t \in WindowTimes(v), x \in DaysOut(v), z \in Zones(v)}

InitWindow ==
    /\ variant \in {"buying", "selling"}
    /\ bar = NoBar
    /\ nbars = 0
    /\ Construct
    /\ asof_in = NoQuery
    /\ asof_out = << >>
    /\ ema_in = NoPrices
    /\ ema_out = << >>

MidcapWindowNext(b) ==
    /\ variant = "buying"
    /\ nbars < MaxWindowBars
    /\ InOrder(b)
    /\ bar' = b
    /\ nbars' = nbars + 1
    /\ UNCHANGED <<variant, asof_vars, ema_vars>>
    /\ \E s \in {buy_next(Fresh, bar.zone, b, TRUE)} : Commit(s)

SellingWindowNext(b) ==
    /\ variant = "selling"
    /\ nbars < MaxWindowBars
    /\ InOrder(b)
    /\ bar' = b
    /\ nbars' = nbars + 1
    /\ UNCHANGED <<variant, asof_vars, ema_vars>>
    /\ \E s \in {sell_next(Fresh, b, TRUE)} : Commit(s)

NextWindow ==
    \/ \E b \in WindowBars("buying") : MidcapWindowNext(b)
    \/ \E b \in WindowBars("selling") : SellingWindowNext(b)

SpecWindow == InitWindow /\ [][NextWindow]_vars

---------------------------------------------------------------------------
(* The EMA columns on their own: a price sequence, a span, and the EMA of  *)
(* each program applied to it (pandas ewm on a contract series in the      *)
(* selling program, backtrader's EMA on the spot feed in the buying one).  *)

MaxPrices == 3          \* prices drawn freely in a sequence of the EMA check

SamplePrices == {10, 12, 14}
PriceSeqs == UNION {[1..k -> SamplePrices] : k \in 1..MaxPrices}
Flat(c, k) == [i \in 1..k |-> c]
(* Spot sequences long enough for the indicator to have values: a flat     *)
(* run of period - 1 prices followed by freely drawn ones. *)
SpotSeqs(period) == {Flat(c, period - 1) \o xs : c \in {10, 12}, xs \in PriceSeqs}

InitEma ==
    /\ variant \in {"buying", "selling"}
    /\ bar = NoBar
    /\ nbars = 0
    /\ Construct
    /\ asof_in = NoQuery
    /\ asof_out = << >>
    /\ \/ /\ variant = "selling"
          /\ ema_in \in [xs : PriceSeqs, span : {EMA_FAST, EMA_SLOW}]
       \/ /\ variant = "buying"
          /\ \E period \in {EMA5_PERIOD, EMA20_PERIOD} :
                ema_in \in [xs : PriceSeqs \cup SpotSeqs(period), span : {period}]
    /\ ema_out = << >>

(* Lines 127-129 of backtest_crossselling.py. *)
EwmColumn ==
    /\ variant = "selling"
    /\ ema_out = << >>
    /\ ema_out' = << Ewm(ema_in.xs, ema_in.span) >>
    /\ UNCHANGED <<feed_vars, strat_vars, asof_vars, ema_in>>

(* Lines 50-52 of backtest_buying_momentum.py. *)
SpotEma ==
    /\ variant = "buying"
    /\ ema_out = << >>
    /\ ema_out' = << BtEma(ema_in.xs, ema_in.span) >>
    /\ UNCHANGED <<feed_vars, strat_vars, asof_vars, ema_in>>

NextEma == EwmColumn \/ SpotEma

SpecEma == InitEma /\ [][NextEma]_vars

---------------------------------------------------------------------------
(* Vocabulary of the properties: what a bar is and what the contract files *)
(* hold, stated on the data, not through the handlers above.               *)

Last(seq) == seq[Len(seq)]
Opened == total_trades_count' - total_trades_count
Closed == Len(summary_log') - Len(summary_log)
BarStep == nbars' = nbars + 1
When(b) == b.date * 86400 + b.time
DaysOut_(b) == b.expiry - b.date

AtOrBefore(rows, ts) == {i \in 1..Len(rows) : rows[i].ts <= ts}
Latest(rows, ts) ==
    CHOOSE i \in AtOrBefore(rows, ts) : \A j \in AtOrBefore(rows, ts) : rows[j].ts <= rows[i].ts
LoadFailed(log) == \E i \in 1..Len(log) : log[i].kind # "csv"

(* The held contract's price is available to the buying program on bar b. *)
BuyAvailable(scrip, b, log) ==
    /\ ~LoadFailed(log)
    /\ scrip \in DOMAIN BuyFiles
    /\ AtOrBefore(BuyFiles[scrip].rows, When(b)) # {}
BuyClose(scrip, b) ==
    LET rows == BuyFiles[scrip].rows IN rows[Latest(rows, When(b))].close

(* The contract's row is available to the selling program on bar b. *)
SellAvailable(scrip, b, log) ==
    /\ ~LoadFailed(log)
    /\ scrip \in DOMAIN SellFiles
    /\ LET rows == SellFiles[scrip].rows
       IN  /\ AtOrBefore(rows, When(b)) # {}
           /\ When(b) - rows[Latest(rows, When(b))].ts <= 900
SellClose(scrip, b) ==
    LET rows == SellFiles[scrip].rows IN rows[Latest(rows, When(b))].close

HoldPnls == {current_trade_ledger[i].PnL_INR : i \in
                {j \in 1..Len(current_trade_ledger) : current_trade_ledger[j].Event = "HOLD"}}
HighWater == CHOOSE h \in HoldPnls : \A x \in HoldPnls : x <= h

---------------------------------------------------------------------------
(* C1: at most one position is open.  A trade is opened only on a bar that *)
(* begins flat and a trade is closed only on a bar that begins open, never *)
(* both on one bar, so after every bar the number of trades opened minus   *)
(* the number of summary rows is 1 with a position open and 0 without.     *)
C1_OnePosition ==
    [][ /\ Opened \in {0, 1}
        /\ Closed \in {0, 1}
        /\ Opened = 1 => (/\ ~position_active
                          /\ position_active'
                          /\ Closed = 0
                          /\ Len(current_trade_ledger') = 1
                          /\ current_trade_ledger'[1].Event \in {"ENTRY", "SELL_ENTRY"})
        /\ Closed = 1 => (position_active /\ ~position_active' /\ Opened = 0)
        /\ (Opened = 0 /\ Closed = 0) => position_active' = position_active
        /\ total_trades_count' - Len(summary_log') = (IF position_active' THEN 1 ELSE 0)
      ]_vars

(* A second trade is open after the first was closed. *)
C1_Witness ==
    total_trades_count = 2 /\ Len(summary_log) = 1 /\ position_active

(* C2 as stated: the profit/loss of every summary row equals the price     *)
(* difference of that row's own (two-decimal) prices times the lot size.   *)
C2_RowPricesExact ==
    \A i \in 1..Len(summary_log) :
        LET r == summary_log[i]
            exit == IF variant = "buying" THEN r.SellPrice ELSE r.BuyPrice
            entry == IF variant = "buying" THEN r.BuyPrice ELSE r.SellPrice
        IN  IF variant = "buying"
            THEN r.PnL = (exit - entry) * 120
            ELSE r.PnL = (entry - exit) * 120

C2_Prices == 0..Rs(150)

(* C2 amended: the profit/loss of a summary row is the price difference    *)
(* of the unrounded exit and entry prices times the lot size; the row's    *)
(* prices are these two rounded to two decimals.  It therefore agrees with *)
(* the row's own prices to within 0.01 x lot size, and exactly when both   *)
(* unrounded prices have at most two decimals.                             *)
C2_PnlOfUnroundedPrices ==
    [][ Closed = 1 =>
          LET r == Last(summary_log')
              rowEntry == IF variant = "buying" THEN r.BuyPrice ELSE r.SellPrice
              rowExit == IF variant = "buying" THEN r.SellPrice ELSE r.BuyPrice
              sign == IF variant = "buying" THEN 1 ELSE -1
              gap == r.PnL - sign * (rowExit - rowEntry) * 120
          IN  /\ rowEntry = Round2(entry_price)
              /\ \E p \in C2_Prices :
                    /\ rowExit = Round2(p)
                    /\ r.PnL * 6 = 100 * sign * (p - entry_price) * 120
                    /\ (p % 3 = 0 /\ entry_price % 3 = 0) => gap = 0
              /\ gap <= 120 /\ -gap <= 120
      ]_vars

(* A trade closed at its stop price, whose row prices do not reproduce its *)
(* profit/loss. *)
C2_Witness ==
    \E i \in 1..Len(summary_log) :
        /\ summary_log[i].ExitReason = "TSL_HIT"
        /\ summary_log[i].PnL # (summary_log[i].SellPrice - summary_log[i].BuyPrice) * 120

(* C3: buying.  A bar at or after 15:15 whose date is the expiry date of   *)
(* the bar, processed with a position open, closes the position with       *)
(* reason EXPIRY_FORCE whatever the stop and the EMA lines say, at the     *)
(* latest price of the held contract or, when that is unavailable, at the  *)
(* entry price with profit/loss 0.                                         *)
C3_ExpiryForce ==
    [][ (variant = "buying" /\ BarStep /\ position_active
           /\ bar'.date = bar'.expiry /\ bar'.time >= 15 * 3600 + 15 * 60)
        => /\ Closed = 1
           /\ ~position_active'
           /\ LET r == Last(summary_log')
              IN  /\ r.ExitReason = "EXPIRY_FORCE"
                  /\ r.ScripName = active_scrip
                  /\ r.SellDateTime = [date |-> bar'.date, time |-> bar'.time]
                  /\ IF BuyAvailable(active_scrip, bar', io_log')
                     THEN r.SellPrice = Round2(BuyClose(active_scrip, bar'))
                     ELSE r.SellPrice = Round2(entry_price) /\ r.PnL = 0
           /\ Last(current_trade_ledger').Event = "EXIT"
           /\ Len(current_trade_ledger') = Len(current_trade_ledger) + 1
      ]_vars

(* A forced exit at the entry price because the contract file was not found. *)
C3_Witness ==
    /\ variant = "buying"
    /\ Len(summary_log) > 0
    /\ Last(summary_log).ExitReason = "EXPIRY_FORCE"
    /\ Last(summary_log).SellDateTime = [date |-> bar.date, time |-> bar.time]
    /\ LoadFailed(io_log)
    /\ Last(summary_log).PnL = 0
    /\ Last(summary_log).SellPrice = Round2(entry_price)

(* C4 as stated: selling.  Every bar processed with a position open and at *)
(* most 4 days to expiry closes the position with ROLLOVER_EXIT.           *)
C4_RolloverAlwaysCloses ==
    [][ (variant = "selling" /\ BarStep /\ position_active /\ DaysOut_(bar') <= 4)
        => /\ Closed = 1 /\ ~position_active'
           /\ Last(summary_log').ExitReason = "ROLLOVER_EXIT"
      ]_vars

(* C4 amended: selling.  A bar processed with a position open and at most  *)
(* 4 days to expiry closes the position with ROLLOVER_EXIT, at the         *)
(* contract's current price, when the contract's row is available on that  *)
(* bar, whether or not the reversal or the target condition holds; when    *)
(* the row is unavailable the position stays open and nothing is recorded. *)
C4_RolloverClosesWhenAvailable ==
    [][ (variant = "selling" /\ BarStep /\ position_active /\ DaysOut_(bar') <= 4)
        => IF SellAvailable(active_scrip, bar', io_log')
           THEN /\ Closed = 1 /\ ~position_active'
                /\ Last(summary_log').ExitReason = "ROLLOVER_EXIT"
                /\ Last(summary_log').BuyPrice = Round2(SellClose(active_scrip, bar'))
           ELSE /\ Closed = 0 /\ position_active'
                /\ current_trade_ledger' = current_trade_ledger
      ]_vars

(* A rollover exit at a price of 45, above the target, on a row that is no *)
(* reversal. *)
C4_Witness ==
    /\ variant = "selling"
    /\ Len(summary_log) > 0
    /\ Last(summary_log).ExitReason = "ROLLOVER_EXIT"
    /\ Last(summary_log).ScripName = "SP2"
    /\ Last(summary_log).BuyPrice = Round2(Rs(45))
    /\ DaysOut_(bar) = 4

(* C5 as stated: selling.  A flat bar whose expiry is five calendar days   *)
(* after its date opens no position.                                       *)
C5_NoEntryFiveDaysOut ==
    [][ (variant = "selling" /\ BarStep /\ ~position_active /\ DaysOut_(bar') = 5)
        => ~position_active'
      ]_vars

(* C5 amended: selling.  A flat bar whose expiry is at most four calendar  *)
(* days after its date opens no position, whatever the legs' indicators;   *)
(* five days out the veto does not apply: a bar inside the entry window    *)
(* whose put leg is available and has EMA19(close) < EMA50(low) opens a    *)
(* short put.                                                              *)
C5_VetoAtFourDays ==
    [][ (variant = "selling" /\ BarStep /\ ~position_active)
        => /\ DaysOut_(bar') <= 4 => (~position_active' /\ Opened = 0)
           /\ (/\ DaysOut_(bar') = 5
               /\ bar'.time >= 14 * 3600 /\ bar'.time <= 15 * 3600 + 30 * 60
               /\ SellAvailable(bar'.pe, bar', io_log')
               /\ LET rows == WithIndicators(SortIndex(SellFiles[bar'.pe].rows))
                      row == rows[Latest(rows, When(bar'))]
                  IN  FracLess(row.EMA19_Close, row.EMA50_Low))
              => position_active' /\ pos_type' = "PE" /\ active_scrip' = bar'.pe
      ]_vars

(* A flat bar four days out, inside the window, whose put leg gives the    *)
(* entry signal: nothing was opened. *)
C5_Witness ==
    /\ variant = "selling"
    /\ nbars = 1
    /\ bar = [date |-> 1, time |-> 14 * 3600, expiry |-> 5, zone |-> "nan",
              ce |-> "SC1", pe |-> "SP1"]
    /\ ~position_active
    /\ total_trades_count = 0

(* C6: selling.  No trade is opened on a bar with at most 4 days to        *)
(* expiry, and such a bar processed flat opens no contract file and        *)
(* changes no field of the strategy: the veto comes before the window      *)
(* check and before any probe.                                             *)
C6_VetoBeforeProbe ==
    [][ (variant = "selling" /\ BarStep /\ DaysOut_(bar') <= 4)
        => /\ Opened = 0
           /\ ~position_active =>
                (/\ io_log' = << >>
                 /\ UNCHANGED <<current_date, trades_today, total_trades_count,
                                position_active, pos_type, entry_price, entry_time,
                                active_scrip, sl_mode, current_sl_price, max_pnl_reached,
                                active_option_df, summary_log, current_trade_ledger,
                                trade_files>>)
      ]_vars

(* A vetoed bar inside the window whose call leg would give the signal:    *)
(* no file was opened.                                                     *)
C6_Witness ==
    /\ variant = "selling"
    /\ ~position_active
    /\ DaysOut_(bar) <= 4
    /\ bar.time = 14 * 3600 /\ bar.date = 1
    /\ bar.ce = "SC1" /\ bar.pe = "SP0"
    /\ io_log = << >>

(* C7 as stated: in each program a bar of a new date drops the cached      *)
(* series before it is evaluated, so a position held overnight has its     *)
(* series loaded again from the source on the first bar of the new day     *)
(* (and the buying program's daily counter restarts from zero).            *)
C7_DayChangeReloads ==
    [][ (BarStep /\ bar'.date # bar.date)
        => /\ variant = "buying" => trades_today' = Opened
           /\ position_active => (/\ Len(io_log') >= 1
                                  /\ io_log'[1].scrip = active_scrip)
      ]_vars

(* C7 amended: in the buying program a bar of a new date resets the daily  *)
(* trade counter to zero and drops the cached series before the bar is     *)
(* evaluated: the lookup of that bar (for the held contract, or for the    *)
(* leg of an entry) opens the contract's file again, and a series cached   *)
(* after the bar was loaded on the bar.  The selling program has no daily  *)
(* counter and keeps the cached series of a held contract across dates.    *)
C7_BuyingDayReset ==
    [][ (variant = "buying" /\ BarStep /\ bar'.date # bar.date)
        => /\ current_date' = bar'.date
           /\ trades_today' = Opened
           /\ position_active => (/\ Len(io_log') = 1
                                  /\ io_log'[1].scrip = active_scrip)
           /\ Opened = 1 => (/\ Len(io_log') = 1
                             /\ io_log'[1].scrip = active_scrip')
           /\ active_option_df' # NoneDf =>
                (/\ Len(io_log') = 1
                 /\ io_log'[1].kind = "csv"
                 /\ active_option_df'[1].src = io_log'[1].scrip)
      ]_vars

(* A position opened on one day and held on a bar of the next day: the     *)
(* file of its contract was opened again and the day's counter is zero.    *)
C7_Witness ==
    /\ variant = "buying"
    /\ position_active
    /\ entry_time.date < bar.date
    /\ trades_today = 0
    /\ io_log = << [scrip |-> active_scrip, kind |-> "csv"] >>
    /\ Last(current_trade_ledger).Event = "HOLD"

(* C8: buying, trigger 3000, step 500, increment 500.  With H the highest  *)
(* profit of the held bars of the trade, the stop mode is NONE exactly     *)
(* while H < 3000, and from the trigger on the stop price is               *)
(* entry + floor((H - 3000) / 500) * 500 / quantity: the entry price while *)
(* H - 3000 < 500 (mode COST), above it afterwards (mode TRAILING).        *)
C8_StopFormula ==
    (variant = "buying" /\ total_trades_count > 0) =>
        LET H == IF HoldPnls = {} THEN 0 ELSE HighWater \div 100
            triggered == HoldPnls # {} /\ H >= 3000
        IN  /\ (sl_mode # "NONE") <=> triggered
            /\ ~triggered => current_sl_price = 0
            /\ triggered =>
                 /\ max_pnl_reached = H
                 /\ (current_sl_price - entry_price) * 120
                        = ((H - 3000) \div 500) * 500 * 6
                 /\ (H - 3000 < 500) <=> (sl_mode = "COST")
                 /\ (H - 3000 < 500) => current_sl_price = entry_price

(* Entry at 100, profit of 4020 on a held bar: the stop is 100 + 1000/120. *)
C8_Witness ==
    /\ variant = "buying"
    /\ position_active
    /\ entry_price = Rs(100)
    /\ max_pnl_reached >= 4000
    /\ current_sl_price * 120 = Rs(100) * 120 + 1000 * 6
    /\ sl_mode = "TRAILING"

ModeRank(m) == CASE m = "NONE" -> 0 [] m = "COST" -> 1 [] m = "TRAILING" -> 2

(* C9: buying.  From the entry of a position to its close the stop price   *)
(* never decreases from one bar to the next and the stop mode never moves  *)
(* back (NONE, COST, TRAILING in that order); an entry starts from mode    *)
(* NONE and stop price 0.                                                  *)
C9_StopNeverRetreats ==
    [][ variant = "buying" =>
          /\ (position_active /\ BarStep /\ Opened = 0) =>
                (/\ current_sl_price' >= current_sl_price
                 /\ ModeRank(sl_mode') >= ModeRank(sl_mode))
          /\ Opened = 1 => (/\ sl_mode' = "NONE"
                            /\ current_sl_price' = 0
                            /\ max_pnl_reached' = 0)
      ]_vars

(* A held bar whose profit is below the high-water mark, with the stop     *)
(* still above the entry price. *)
C9_Witness ==
    /\ variant = "buying"
    /\ position_active
    /\ sl_mode = "TRAILING"
    /\ current_sl_price > entry_price
    /\ Last(current_trade_ledger).Event = "HOLD"
    /\ Last(current_trade_ledger).PnL_INR < max_pnl_reached * 100
    /\ Last(current_trade_ledger).PnL_INR >= 3000 * 100

C11_EmaFromFirstPrice ==
    ema_out # << >> =>
        LET xs == ema_in.xs
            span == ema_in.span
            y == ema_out[1]
        IN  /\ Len(y) = Len(xs)
            /\ y[1].d # 0 /\ y[1].n = xs[1] * y[1].d
            /\ \A i \in 2..Len(xs) :
                 /\ y[i].d = (span + 1) * y[i-1].d
                 /\ y[i].n = 2 * xs[i] * y[i-1].d + (span - 1) * y[i-1].n

(* C11 amended: the EMA columns of a contract series in the selling        *)
(* program follow ema[0] = price[0] and the recurrence with a = 2/(span+1) *)
(* (10, 10.2, 10.58 for prices 10, 12, 14 and span 19).  The EMA lines of  *)
(* the buying program's spot feed have no value on the first period - 1    *)
(* bars, start on bar number period at the arithmetic mean of the first    *)
(* period prices, and follow the same recurrence from there.               *)
C11_EmaRecurrence ==
    ema_out # << >> =>
        LET xs == ema_in.xs
            span == ema_in.span
            y == ema_out[1]
            first == IF variant = "selling" THEN 1 ELSE span
            Total[k \in 0..Len(xs)] == IF k = 0 THEN 0 ELSE xs[k] + Total[k-1]
        IN  /\ Len(y) = Len(xs)
            /\ \A i \in 1..Len(xs) : i < first => y[i] = [n |-> 0, d |-> 0]
            /\ (variant = "selling" /\ Len(xs) >= 1) => (y[1].d # 0 /\ y[1].n = xs[1] * y[1].d)
            /\ (variant = "buying" /\ Len(xs) >= span) =>
                    (y[span].d # 0 /\ y[span].n * span = Total[span] * y[span].d)
            /\ \A i \in (first + 1)..Len(xs) :
                 /\ y[i].d = (span + 1) * y[i-1].d
                 /\ y[i].n = 2 * xs[i] * y[i-1].d + (span - 1) * y[i-1].n
            /\ (variant = "selling" /\ xs = <<10, 12, 14>> /\ span = 19) =>
                    /\ y[1].n = 10 * y[1].d
                    /\ y[2].n * 10 = 102 * y[2].d
                    /\ y[3].n * 100 = 1058 * y[3].d

(* The EMA19 column of the series 10, 12, 14 has been computed. *)
C11_Witness ==
    /\ variant = "selling"
    /\ ema_in = [xs |-> <<10, 12, 14>>, span |-> 19]
    /\ ema_out # << >>
    /\ Len(ema_out[1]) = 3

EntryStamp(row) == IF variant = "buying" THEN row.BuyDateTime ELSE row.SellDateTime
ExitEvent == IF variant = "buying" THEN "EXIT" ELSE "BUY_EXIT"

(* C12: in both programs every close appends exactly one summary row and   *)
(* writes exactly one trade file, on the bar of the close; the i-th        *)
(* summary row and the i-th file carry the sequence number i, the same     *)
(* contract and the trade's entry date, so no file key is used twice.      *)
C12_OneRowOneFlush ==
    /\ [](/\ Len(trade_files) = Len(summary_log)
          /\ total_trades_count - Len(summary_log) = (IF position_active THEN 1 ELSE 0)
          /\ \A i \in 1..Len(summary_log) :
               /\ summary_log[i].TradeID = i
               /\ trade_files[i].TradeID = i
               /\ trade_files[i].Scrip = summary_log[i].ScripName
               /\ trade_files[i].Date = EntryStamp(summary_log[i]).date
          /\ \A i, j \in 1..Len(trade_files) :
               i # j => <<trade_files[i].TradeID, trade_files[i].Scrip, trade_files[i].Date>>
                          # <<trade_files[j].TradeID, trade_files[j].Scrip, trade_files[j].Date>>)
    /\ [][ BarStep =>
             /\ Closed \in {0, 1}
             /\ Len(trade_files') - Len(trade_files) = Closed
             /\ Closed = 1 <=> (position_active /\ ~position_active')
             /\ Closed = 1 =>
                  /\ SubSeq(summary_log', 1, Len(summary_log)) = summary_log
                  /\ SubSeq(trade_files', 1, Len(trade_files)) = trade_files
                  /\ Last(trade_files').rows = current_trade_ledger'
                  /\ Last(Last(trade_files').rows).Event = ExitEvent
                  /\ Last(Last(trade_files').rows).Date = bar'.date
                  /\ Last(Last(trade_files').rows).Time = bar'.time
       ]_vars

(* Two trades have been closed in one replay. *)
C12_Witness ==
    /\ Len(summary_log) = 2
    /\ Len(trade_files) = 2
    /\ summary_log[2].TradeID = 2
    /\ ~position_active

ExitRows(ledger) == {i \in 1..Len(ledger) : ledger[i].Event \in {"EXIT", "BUY_EXIT"}}

(* C13: buying.  A held bar closes the position at most once, and the      *)
(* reason follows the priority EXPIRY_FORCE, TSL_HIT, EMA_REVERSAL: the    *)
(* bar closes with EXPIRY_FORCE exactly when it is a forced-expiry bar,    *)
(* with TSL_HIT exactly when it is not one and the stop as updated on the  *)
(* bar is hit, and with EMA_REVERSAL exactly when it is not a              *)
(* forced-expiry bar, the stop is not hit and the EMA reversal holds.      *)
C13_BuyExitPriority ==
    [][ (variant = "buying" /\ BarStep /\ position_active) =>
          LET force == bar'.date = bar'.expiry /\ bar'.time >= 15 * 3600 + 15 * 60
              avail == BuyAvailable(active_scrip, bar', io_log')
              price == BuyClose(active_scrip, bar')
              hit == sl_mode' # "NONE" /\ price <= current_sl_price'
              reversal == \/ pos_type = "CE" /\ bar'.zone = "below"
                          \/ pos_type = "PE" /\ bar'.zone = "above"
              reason == Last(summary_log').ExitReason
          IN  /\ Closed \in {0, 1}
              /\ Closed = 1 => Cardinality(ExitRows(current_trade_ledger')) = 1
              /\ (Closed = 1 /\ reason = "EXPIRY_FORCE") <=> force
              /\ (Closed = 1 /\ reason = "TSL_HIT") <=> (~force /\ avail /\ hit)
              /\ (Closed = 1 /\ reason = "EMA_REVERSAL")
                    <=> (~force /\ avail /\ ~hit /\ reversal)
              /\ Closed = 0 <=> (~force /\ (~avail \/ (~hit /\ ~reversal)))
      ]_vars

(* A put closed by its stop on a bar where the EMA reversal held as well. *)
C13_Witness ==
    /\ variant = "buying"
    /\ Len(summary_log) > 0
    /\ Last(summary_log).ExitReason = "TSL_HIT"
    /\ Last(summary_log).SellDateTime = [date |-> bar.date, time |-> bar.time]
    /\ Last(summary_log).ScripName = bar.pe
    /\ bar.zone = "above"

(* The row of the contract's own series, with its indicator columns, that *)
(* is current on bar b. *)
SellRowAt(scrip, b) ==
    LET rows == WithIndicators(SortIndex(SellFiles[scrip].rows))
    IN  rows[Latest(rows, When(b))]

C15_StopHitAtStopPrice ==
    [][ (variant = "buying" /\ BarStep /\ position_active) =>
          LET force == bar'.date = bar'.expiry /\ bar'.time >= 15 * 3600 + 15 * 60
              avail == BuyAvailable(active_scrip, bar', io_log')
              market == BuyClose(active_scrip, bar')
              stop == current_sl_price'
              r == Last(summary_log')
              ledger == current_trade_ledger'
              hold == CHOOSE i \in 1..Len(ledger) :
                         /\ ledger[i].Event = "HOLD"
                         /\ ledger[i].Date = bar'.date /\ ledger[i].Time = bar'.time
          IN  /\ (Closed = 1 /\ r.ExitReason = "TSL_HIT")
                    <=> (~force /\ avail /\ sl_mode' # "NONE" /\ market <= stop)
              /\ (Closed = 1 /\ r.ExitReason = "TSL_HIT") =>
                    /\ stop >= entry_price
                    /\ r.SellPrice = Round2(stop)
                    /\ r.BuyPrice = Round2(entry_price)
                    /\ r.PnL = (((stop - entry_price) * 120) \div 6) * 100
                    /\ Last(ledger).Event = "EXIT"
                    /\ Last(ledger).Price = Round2(stop)
                    /\ Last(ledger).Info = "TSL_HIT"
                    /\ ledger[hold].Price = Round2(market)
      ]_vars

(* A stop hit by a market price strictly below the stop: the trade is      *)
(* closed at the stop price, with a profit. *)
C15_Witness ==
    /\ variant = "buying"
    /\ Len(summary_log) > 0
    /\ Last(summary_log).ExitReason = "TSL_HIT"
    /\ Last(summary_log).SellDateTime = [date |-> bar.date, time |-> bar.time]
    /\ Last(summary_log).PnL > 0
    /\ Last(summary_log).ScripName \in DOMAIN BuyFiles
    /\ Round2(BuyClose(Last(summary_log).ScripName, bar)) < Last(summary_log).SellPrice

Available(scrip, b, log) ==
    IF variant = "buying" THEN BuyAvailable(scrip, b, log) ELSE SellAvailable(scrip, b, log)

(* C16: in both programs a bar processed with a position open, for which  *)
(* the contract's price is unavailable (file missing or unreadable, no     *)
(* sample at or before the bar, or a stale one in the selling program) and *)
(* which is not a forced-expiry bar of the buying program, leaves the      *)
(* position open and changes none of: entry price and time, side,          *)
(* contract, stop mode, stop price, high-water mark, step ledger, summary  *)
(* list, trade files, trade sequence number.                               *)
C16_UnavailableBarSkipped ==
    [][ (/\ BarStep
         /\ position_active
         /\ ~Available(active_scrip, bar', io_log')
         /\ ~(/\ variant = "buying"
              /\ bar'.date = bar'.expiry
              /\ bar'.time >= 15 * 3600 + 15 * 60))
        => /\ position_active'
           /\ UNCHANGED <<entry_price, entry_time, pos_type, active_scrip, sl_mode,
                          current_sl_price, max_pnl_reached, current_trade_ledger,
                          summary_log, trade_files, total_trades_count>>
      ]_vars

(* A position held on a bar that added no step to its ledger: the file of  *)
(* the contract could not be opened on that bar. *)
C16_Witness ==
    /\ position_active
    /\ nbars >= 2
    /\ LoadFailed(io_log)
    /\ Len(current_trade_ledger) >= 1
    /\ <<Last(current_trade_ledger).Date, Last(current_trade_ledger).Time>>
          # <<bar.date, bar.time>>

(* The steps a bar appended to the ledger of the trade it closed. *)
StepsOfBar == SubSeq(current_trade_ledger', Len(current_trade_ledger) + 1,
                     Len(current_trade_ledger'))
OnBar(row, b) == row.Date = b.date /\ row.Time = b.time

(* C17 as stated: in both programs, on every bar that closes a position,   *)
(* whatever the exit reason, the steps of the bar are a HOLD row, then its *)
(* TSL_UPDATE rows if any, then the EXIT / BUY_EXIT row.                   *)
C17_HoldBeforeEveryExit ==
    [][ (BarStep /\ Closed = 1) =>
          LET rows == StepsOfBar
              n == Len(rows)
          IN  /\ n >= 2
              /\ rows[1].Event = "HOLD"
              /\ rows[n].Event = ExitEvent
              /\ \A i \in 2..(n - 1) : rows[i].Event = "TSL_UPDATE"
              /\ \A i \in 1..n : OnBar(rows[i], bar')
      ]_vars

(* C17 amended: on every bar that closes a position for a reason other     *)
(* than EXPIRY_FORCE, the steps of the bar are a HOLD row, then its        *)
(* TSL_UPDATE rows if any (buying only), then the EXIT / BUY_EXIT row.  A  *)
(* forced-expiry close of the buying program is taken before the HOLD      *)
(* record: the bar appends the EXIT row alone.                             *)
C17_HoldBeforeExitUnlessForced ==
    [][ (BarStep /\ Closed = 1) =>
          LET rows == StepsOfBar
              n == Len(rows)
              reason == Last(summary_log').ExitReason
          IN  /\ SubSeq(current_trade_ledger', 1, Len(current_trade_ledger))
                    = current_trade_ledger
              /\ \A i \in 1..n : OnBar(rows[i], bar')
              /\ n >= 1 /\ rows[n].Event = ExitEvent /\ rows[n].Info = reason
              /\ IF reason = "EXPIRY_FORCE"
                 THEN n = 1
                 ELSE /\ n >= 2
                      /\ rows[1].Event = "HOLD"
                      /\ \A i \in 2..(n - 1) : rows[i].Event = "TSL_UPDATE"
                      /\ variant = "selling" => n = 2
      ]_vars

(* A close whose bar wrote HOLD, TSL_UPDATE and EXIT, in that order. *)
C17_Witness ==
    /\ variant = "buying"
    /\ ~position_active
    /\ Len(current_trade_ledger) >= 4
    /\ LET n == Len(current_trade_ledger)
       IN  /\ current_trade_ledger[n].Event = "EXIT"
           /\ current_trade_ledger[n-1].Event = "TSL_UPDATE"
           /\ current_trade_ledger[n-2].Event = "HOLD"
           /\ OnBar(current_trade_ledger[n-2], bar)
           /\ OnBar(current_trade_ledger[n], bar)

(* Positions opened on bars of date d: closed trades and the open one. *)
EntriesOn(d) ==
    Cardinality({i \in 1..Len(summary_log) : summary_log[i].BuyDateTime.date = d})
        + (IF position_active /\ entry_time.date = d THEN 1 ELSE 0)
EntryDates ==
    {summary_log[i].BuyDateTime.date : i \in 1..Len(summary_log)}
        \cup (IF position_active THEN {entry_time.date} ELSE {})

(* C18: buying, daily cap 2.  At most 2 positions are opened on the bars   *)
(* of any one date.  The trades-today counter never exceeds 2 and equals   *)
(* the number of positions opened on the current date: a bar sets it to    *)
(* zero exactly when its date differs from the current date, and then adds *)
(* one exactly when it opens a position; with the counter at 2 nothing is  *)
(* opened.                                                                 *)
C18_DailyCap ==
    /\ [](variant = "buying" =>
            /\ trades_today \in 0..2
            /\ \A d \in EntryDates : EntriesOn(d) <= 2
            /\ nbars >= 1 => trades_today = EntriesOn(current_date))
    /\ [][ (variant = "buying" /\ BarStep) =>
             LET start == IF bar'.date # current_date THEN 0 ELSE trades_today
             IN  /\ Opened \in {0, 1}
                 /\ trades_today' = start + Opened
                 /\ start >= 2 => Opened = 0
                 /\ current_date' = bar'.date
       ]_vars

(* Two trades opened and closed on the current date, and a later bar of    *)
(* that date inside the entry window on which nothing was opened.          *)
C18_Witness ==
    /\ variant = "buying"
    /\ trades_today = 2
    /\ Len(summary_log) = 2
    /\ ~position_active
    /\ bar.date = current_date
    /\ bar.time >= 9 * 3600 + 20 * 60 /\ bar.time <= 11 * 3600
    /\ Last(summary_log).SellDateTime # [date |-> bar.date, time |-> bar.time]
    /\ bar.zone # "inside"

InWindow(time) ==
    IF variant = "buying"
    THEN 9 * 3600 + 20 * 60 <= time /\ time <= 11 * 3600
    ELSE 14 * 3600 <= time /\ time <= 15 * 3600 + 30 * 60

(* C19: every entry is on a bar whose time lies in the entry window of the *)
(* program (09:20 to 11:00 buying, 14:00 to 15:30 selling).  A flat bar    *)
(* outside the window opens nothing and writes no ledger row.  The bounds  *)
(* belong to the window: a flat bar inside it, the bounds included, opens  *)
(* a position when its leg signals and the leg's price is available (and,  *)
(* buying, the daily cap is not reached; selling, the bar is more than 4   *)
(* days from expiry).                                                      *)
C19_EntryWindow ==
    [][ BarStep =>
          /\ Opened = 1 => InWindow(bar'.time)
          /\ (~position_active /\ ~InWindow(bar'.time)) =>
                /\ Opened = 0
                /\ ~position_active'
                /\ UNCHANGED <<current_trade_ledger, summary_log, trade_files>>
          /\ (/\ variant = "buying"
              /\ ~position_active
              /\ InWindow(bar'.time)
              /\ (bar'.date = current_date => trades_today < 2)
              /\ bar.zone \in {"inside", "below"}
              /\ bar'.zone = "above"
              /\ BuyAvailable(bar'.ce, bar', io_log')
              /\ BuyClose(bar'.ce, bar') # 0)
             => (Opened = 1 /\ pos_type' = "CE" /\ active_scrip' = bar'.ce)
          /\ (/\ variant = "buying"
              /\ ~position_active
              /\ InWindow(bar'.time)
              /\ (bar'.date = current_date => trades_today < 2)
              /\ bar.zone \in {"inside", "above"}
              /\ bar'.zone = "below"
              /\ BuyAvailable(bar'.pe, bar', io_log')
              /\ BuyClose(bar'.pe, bar') # 0)
             => (Opened = 1 /\ pos_type' = "PE" /\ active_scrip' = bar'.pe)
          /\ (/\ variant = "selling"
              /\ ~position_active
              /\ InWindow(bar'.time)
              /\ bar'.expiry - bar'.date > 4
              /\ SellAvailable(bar'.pe, bar', io_log')
              /\ LET row == SellRowAt(bar'.pe, bar')
                 IN  row.EMA19_Close.n * row.EMA50_Low.d < row.EMA50_Low.n * row.EMA19_Close.d)
             => (Opened = 1 /\ pos_type' = "PE" /\ active_scrip' = bar'.pe)
      ]_vars

(* A trade opened in the last minute of the window and closed on the next  *)
(* bar, outside the window. *)
C19_Witness ==
    /\ variant = "buying"
    /\ Len(summary_log) > 0
    /\ Last(summary_log).BuyDateTime.time = 11 * 3600
    /\ Last(summary_log).SellDateTime = [date |-> bar.date, time |-> bar.time]
    /\ bar.time = 11 * 3600 + 60
    /\ ~position_active

(* C20: buying.  A crossover on a flat bar inside the window whose leg has *)
(* no available price opens nothing: the trade sequence number is          *)
(* unchanged, the daily counter is not incremented (it keeps its value, or *)
(* zero on the first bar of a date) and no ledger row is written.  The     *)
(* signal is not kept: every entry is on a bar that is itself a crossover, *)
(* the previous bar not beyond the band and the current bar beyond it, on  *)
(* the side of the position opened.                                        *)
C20_FailedSignalNotRetried ==
    [][ (variant = "buying" /\ BarStep) =>
          LET ce == bar.zone \in {"inside", "below"} /\ bar'.zone = "above"
              pe == bar.zone \in {"inside", "above"} /\ bar'.zone = "below"
              leg == IF ce THEN bar'.ce ELSE bar'.pe
              start == IF bar'.date # current_date THEN 0 ELSE trades_today
          IN  /\ Opened = 1 =>
                   /\ pos_type' = "CE" => (ce /\ active_scrip' = bar'.ce)
                   /\ pos_type' = "PE" => (pe /\ active_scrip' = bar'.pe)
                   /\ entry_time' = [date |-> bar'.date, time |-> bar'.time]
              /\ (/\ ~position_active
                  /\ 9 * 3600 + 20 * 60 <= bar'.time /\ bar'.time <= 11 * 3600
                  /\ start < 2
                  /\ ce \/ pe
                  /\ ~BuyAvailable(leg, bar', io_log'))
                 => /\ Opened = 0
                    /\ ~position_active'
                    /\ trades_today' = start
                    /\ UNCHANGED <<total_trades_count, current_trade_ledger,
                                   summary_log, trade_files, entry_price, entry_time>>
                    /\ Len(io_log') = 1 /\ io_log'[1].scrip = leg
      ]_vars

(* A bar that followed a failed call signal without being a crossover      *)
(* itself: EMA5 is still above the band, the call's series is cached from  *)
(* the failed attempt and has a price for this bar, nothing is opened.     *)
C20_Witness ==
    /\ variant = "buying"
    /\ ~position_active
    /\ total_trades_count = 0
    /\ bar.time >= 9 * 3600 + 20 * 60 /\ bar.time <= 11 * 3600
    /\ bar.zone = "above"
    /\ io_log = << >>
    /\ active_option_df # NoneDf
    /\ active_option_df[1].src = bar.ce
    /\ BuyAvailable(bar.ce, bar, io_log)

---------------------------------------------------------------------------
(* C21 as stated: in every state without an open position the side is     *)
(* none, the contract identifier is empty, the entry price and entry time  *)
(* are at their defaults and, in the buying variant, the stop mode is      *)
(* NONE, the stop price 0 and the high-water profit 0.                     *)
C21_FlatFieldsDefault ==
    ~position_active =>
        /\ pos_type = "None"
        /\ active_scrip = ""
        /\ entry_price = 0
        /\ entry_time = [date |-> 0, time |-> 0]
        /\ variant = "buying" =>
               (sl_mode = "NONE" /\ current_sl_price = 0 /\ max_pnl_reached = 0)

(* C21 amended: a close clears the position flag, the side and the         *)
(* contract identifier, and nothing else of the position: the entry price, *)
(* the entry time and (buying) the stop mode, stop price and high-water    *)
(* profit keep the closed trade's values, through every later flat bar,    *)
(* until the next entry sets them anew (stop mode NONE, stop price 0,      *)
(* high-water 0).  In every flat state the side is none and, in the        *)
(* selling variant, the contract identifier is empty; in the buying        *)
(* variant a flat bar changes the identifier only to that of a series its  *)
(* entry probe loaded without opening a trade.                             *)
C21_CloseResetsSideAndContract ==
    /\ [](~position_active =>
            /\ pos_type = "None"
            /\ variant = "selling" => active_scrip = ""
            /\ total_trades_count = 0 =>
                   (/\ entry_price = 0 /\ entry_time = [date |-> 0, time |-> 0]
                    /\ sl_mode = "NONE" /\ current_sl_price = 0
                    /\ max_pnl_reached = 0))
    /\ [][ BarStep =>
             /\ Closed = 1 =>
                  /\ ~position_active' /\ pos_type' = "None" /\ active_scrip' = ""
                  /\ entry_price' = entry_price /\ entry_time' = entry_time
                  /\ variant = "buying" =>
                        /\ sl_mode' = Last(current_trade_ledger').SL_Mode
                        /\ current_sl_price' * 50 + 1 >=
                               3 * Last(current_trade_ledger').SL_Price
                        /\ current_sl_price' * 50 + 1 <
                               3 * Last(current_trade_ledger').SL_Price + 3
                        /\ max_pnl_reached' >= max_pnl_reached
             /\ (~position_active /\ ~position_active') =>
                  /\ UNCHANGED <<pos_type, entry_price, entry_time, sl_mode,
                                 current_sl_price, max_pnl_reached>>
                  /\ active_scrip' # active_scrip =>
                        \E i \in 1..Len(io_log') :
                            io_log'[i] = [scrip |-> active_scrip', kind |-> "csv"]
             /\ Opened = 1 =>
                  /\ sl_mode' = "NONE" /\ current_sl_price' = 0
                  /\ max_pnl_reached' = 0
                  /\ entry_time' = [date |-> bar'.date, time |-> bar'.time]
                  /\ entry_price' > 0
       ]_vars

(* The buying variant flat again after a bar that stopped a trade out: the *)
(* side and the contract identifier are cleared, while the stop mode, the  *)
(* stop price, the high-water profit, the entry price and the entry time   *)
(* are still those of the closed trade.                                    *)
C21_Witness ==
    /\ variant = "buying"
    /\ ~position_active
    /\ Len(summary_log) = 1
    /\ Last(summary_log).ExitReason = "TSL_HIT"
    /\ Last(summary_log).SellDateTime = [date |-> bar.date, time |-> bar.time]
    /\ pos_type = "None"
    /\ active_scrip = ""
    /\ sl_mode # "NONE"
    /\ current_sl_price > 0
    /\ max_pnl_reached >= 3000
    /\ entry_price > 0
    /\ entry_time = Last(summary_log).BuyDateTime

---------------------------------------------------------------------------
(* The samples of a contract's file as (timestamp, close) pairs. *)
Samples(rows) == {[ts |-> rows[i].ts, close |-> rows[i].close] : i \in 1..Len(rows)}
Files == IF variant = "buying" THEN BuyFiles ELSE SellFiles
FileClose(scrip, b) ==
    IF variant = "buying" THEN BuyClose(scrip, b) ELSE SellClose(scrip, b)
DayChanged == variant = "buying" /\ bar'.date # current_date

(* C22: series cache coherence.  The cache holds at most one series, and   *)
(* it is the whole content, in time order, of one readable contract file.  *)
(* Whenever a contract identifier is set beside a cached series, the       *)
(* series is that contract's; in the selling variant a series is cached    *)
(* only while a position is open, for the held contract.  Every price the  *)
(* program acts on is the held or probed contract's own: an entry price    *)
(* and the price of a HOLD row are the latest close at or before the bar   *)
(* in the file of that contract, whatever series the cache held before.  A *)
(* bar whose load fails leaves the cached series as it was (after the day  *)
(* rollover of the buying variant) and does not change the identifier.     *)
C22_CacheCoherence ==
    /\ [](/\ Len(active_option_df) <= 1
          /\ active_option_df # << >> =>
                LET f == active_option_df[1]
                IN  /\ f.src \in DOMAIN Files
                    /\ Files[f.src].kind = "csv"
                    /\ Len(f.rows) = Len(Files[f.src].rows)
                    /\ Samples(f.rows) = Samples(Files[f.src].rows)
                    /\ \A i \in 1..(Len(f.rows) - 1) : f.rows[i].ts < f.rows[i + 1].ts
                    /\ active_scrip # "" => f.src = active_scrip
                    /\ variant = "selling" => (position_active /\ f.src = active_scrip))
    /\ [][ BarStep =>
             /\ Opened = 1 =>
                  /\ active_scrip' \in {bar'.ce, bar'.pe}
                  /\ entry_price' = FileClose(active_scrip', bar')
             /\ (/\ position_active
                 /\ Len(current_trade_ledger') > Len(current_trade_ledger)
                 /\ current_trade_ledger'[Len(current_trade_ledger) + 1].Event = "HOLD")
                => /\ current_trade_ledger'[Len(current_trade_ledger) + 1].Ticker
                          = active_scrip
                   /\ 3 * current_trade_ledger'[Len(current_trade_ledger) + 1].Price
                          <= 50 * FileClose(active_scrip, bar') + 1
                   /\ 3 * current_trade_ledger'[Len(current_trade_ledger) + 1].Price + 3
                          > 50 * FileClose(active_scrip, bar') + 1
             /\ LoadFailed(io_log') =>
                  /\ active_option_df' = IF DayChanged THEN << >> ELSE active_option_df
                  /\ (Opened = 0 /\ Closed = 0) => active_scrip' = active_scrip
       ]_vars

(* A flat bar of the buying variant whose entry probe failed to load its   *)
(* contract while the cache held the series of another contract: the       *)
(* cached series and its identifier are still there.                       *)
C22_Witness ==
    /\ variant = "buying"
    /\ ~position_active
    /\ Len(io_log) = 1
    /\ io_log[1].kind = "missing"
    /\ active_option_df # << >>
    /\ active_option_df[1].src # io_log[1].scrip
    /\ active_scrip = active_option_df[1].src

---------------------------------------------------------------------------
ExitStamp(row) == IF variant = "buying" THEN row.SellDateTime ELSE row.BuyDateTime
At(dt) == dt.date * 86400 + dt.time
RowAt(row) == row.Date * 86400 + row.Time
EntryEvent == IF variant = "buying" THEN "ENTRY" ELSE "SELL_ENTRY"
(* A step ledger begins with the entry row and every later row is on a     *)
(* later bar than the entry. *)
EntryBarAlone(rows) ==
    /\ Len(rows) >= 1
    /\ rows[1].Event = EntryEvent
    /\ \A i \in 2..Len(rows) :
          /\ rows[i].Event # EntryEvent
          /\ RowAt(rows[i]) > RowAt(rows[1])

(* C23: one bar makes at most one lifecycle transition.  A bar that closes *)
(* a position opens none and ends flat with the trade sequence number      *)
(* unchanged; a bar that opens a position closes none and leaves a ledger  *)
(* of exactly one row, the entry row of that bar.  Hence every trade's     *)
(* exit is on a later bar than its entry, and a ledger has no HOLD row (no *)
(* row at all besides the entry row) on the entry bar.                     *)
C23_OneTransitionPerBar ==
    /\ [][ BarStep =>
             /\ Closed = 1 =>
                  /\ Opened = 0
                  /\ position_active /\ ~position_active'
                  /\ At(ExitStamp(Last(summary_log'))) = When(bar')
                  /\ At(EntryStamp(Last(summary_log'))) < When(bar')
             /\ Opened = 1 =>
                  /\ Closed = 0
                  /\ ~position_active /\ position_active'
                  /\ Len(current_trade_ledger') = 1
                  /\ current_trade_ledger'[1].Event = EntryEvent
                  /\ RowAt(current_trade_ledger'[1]) = When(bar')
                  /\ entry_time' = [date |-> bar'.date, time |-> bar'.time]
       ]_vars
    /\ [](/\ \A i \in 1..Len(summary_log) :
                At(EntryStamp(summary_log[i])) < At(ExitStamp(summary_log[i]))
          /\ \A i \in 1..Len(trade_files) : EntryBarAlone(trade_files[i].rows)
          /\ position_active => EntryBarAlone(current_trade_ledger))

(* A bar of the buying variant that closed a call on an EMA reversal while *)
(* its own data made a put signal inside the entry window, under the daily *)
(* cap and with the put's price available: the bar ends flat, the put is   *)
(* not opened.                                                             *)
C23_Witness ==
    /\ variant = "buying"
    /\ ~position_active
    /\ Len(summary_log) = 1
    /\ total_trades_count = 1
    /\ Last(summary_log).ExitReason = "EMA_REVERSAL"
    /\ Last(summary_log).SellDateTime = [date |-> bar.date, time |-> bar.time]
    /\ bar.zone = "below"
    /\ bar.time >= 9 * 3600 + 20 * 60 /\ bar.time <= 11 * 3600
    /\ trades_today < 2
    /\ BuyAvailable(bar.pe, bar, << >>)
    /\ BuyClose(bar.pe, bar) > 0

---------------------------------------------------------------------------
(* The profits of the HOLD rows of a ledger, in paise, and the ratchet     *)
(* steps their maximum has earned: one per full 500 above 3000.            *)
HoldPnlsOf(rows) == {rows[i].PnL_INR : i \in {j \in 1..Len(rows) : rows[j].Event = "HOLD"}}
StepsTaken(rows) ==
    LET top == CHOOSE h \in HoldPnlsOf(rows) : \A x \in HoldPnlsOf(rows) : x <= h
    IN  IF top >= 350000 THEN (top - 300000) \div 50000 ELSE 0
SteppedUp(rows) == {i \in 1..Len(rows) : rows[i].Info = "Stepped Up"}

(* C24: buying.  Whenever the stop mode is not NONE the stop price is at   *)
(* or above the entry price.  Every trade closed with TSL_HIT has a        *)
(* recorded profit that is not negative and equals 500 times the ratchet   *)
(* steps taken (the full 500s of the high-water profit above 3000; 0 with  *)
(* the stop still at cost).  The bar of a TSL_HIT neither sets nor         *)
(* ratchets the stop: it writes a HOLD row and the EXIT row, nothing else, *)
(* and the stop was armed on an earlier bar.                               *)
C24_StopHitNeverLoses ==
    /\ [](variant = "buying" =>
            /\ sl_mode # "NONE" => current_sl_price >= entry_price
            /\ \A i \in 1..Len(summary_log) :
                  summary_log[i].ExitReason = "TSL_HIT" =>
                     LET rows == trade_files[i].rows
                     IN  /\ summary_log[i].PnL >= 0
                         /\ HoldPnlsOf(rows) # {}
                         /\ summary_log[i].PnL = 50000 * StepsTaken(rows)
                         /\ Last(rows).PnL_INR = summary_log[i].PnL
                         /\ (Last(rows).SL_Mode = "COST") = (summary_log[i].PnL = 0)
                         /\ Cardinality(SteppedUp(rows)) <= StepsTaken(rows)
                         /\ (StepsTaken(rows) > 0) = (SteppedUp(rows) # {}))
    /\ [][ (variant = "buying" /\ BarStep /\ Closed = 1
             /\ Last(summary_log').ExitReason = "TSL_HIT")
          => /\ sl_mode # "NONE"
             /\ UNCHANGED <<sl_mode, current_sl_price, max_pnl_reached>>
             /\ Len(current_trade_ledger') = Len(current_trade_ledger) + 2
             /\ current_trade_ledger'[Len(current_trade_ledger) + 1].Event = "HOLD"
             /\ Last(current_trade_ledger').Event = "EXIT"
       ]_vars

(* A trade stopped out on this bar after its profit went from under the    *)
(* trigger to over 4000 within one bar: the stop was moved to cost and     *)
(* stepped up once, by two steps, and the recorded profit is 1000.         *)
C24_Witness ==
    /\ variant = "buying"
    /\ Len(summary_log) >= 1
    /\ Last(summary_log).ExitReason = "TSL_HIT"
    /\ Last(summary_log).SellDateTime = [date |-> bar.date, time |-> bar.time]
    /\ Last(summary_log).PnL = 100000
    /\ sl_mode = "TRAILING"
    /\ current_sl_price > entry_price
    /\ StepsTaken(Last(trade_files).rows) = 2
    /\ Cardinality(SteppedUp(Last(trade_files).rows)) = 1

=============================================================================
